---- MODULE Spec2Model ----
(***************************************************************************)
(* Rules engine of the checkers game (CheckersManager): board model, move  *)
(* generator, movePiece / skipTurn turn state machine and win detection.   *)
(*                                                                         *)
(* Coordinates.  The code stores positions as floating point world units;  *)
(* square centres are at k + 0.5.  Here every length is an integer number  *)
(* of quarter tiles, so a centre -4.5 is -18, an integer world coordinate  *)
(* such as 3.0 is 12 and 2.75 is 11.  All comparisons of the code          *)
(* (tolerances 0.1, distance thresholds 1.2, 1.6, 2.5, exact ===) are      *)
(* translated to exact integer comparisons on that grid.                   *)
(***************************************************************************)
EXTENDS Integers, Sequences, FiniteSets, TLC

\* ------------------------------------------------------------------------
\* boardConfig.ts
\* ------------------------------------------------------------------------
TILE_SIZE == 4                      \* one tile (1 world unit) in quarter tiles
BOARD_SIZE == 10
BOARD_HALF_SIZE == BOARD_SIZE \div 2
BOARD_MIN == (TILE_SIZE \div 2) - BOARD_HALF_SIZE * TILE_SIZE     \* -4.5
BOARD_MAX == BOARD_HALF_SIZE * TILE_SIZE - (TILE_SIZE \div 2)     \*  4.5
PIECES_PER_SIDE_ROWS == 4
WHITE_PIECE_START_ROW == BOARD_SIZE - PIECES_PER_SIDE_ROWS

\* ------------------------------------------------------------------------
\* Bounds of the exploration
\* ------------------------------------------------------------------------
\* successful moves explored from a mid-game position
MaxPlies == 2
\* successful moves explored from the freshly constructed manager
GamePlies == 1
\* initializeBoard calls explored in one behaviour
MaxGames == 2
\* successful moves explored after an initializeBoard that restarts a game
RestartPlies == 0
\* successful moves explored in a game played against the bot
BotPlies == 1
\* successful moves explored while the bot plays undisturbed
AlonePlies == 3
\* a score is counted in steps of 1/ScoreScale of a point
ScoreScale == 2

\* ------------------------------------------------------------------------
\* Small arithmetic helpers (Math.abs, Math.min over a set of loop indices)
\* ------------------------------------------------------------------------
Abs(n) == IF n < 0 THEN -n ELSE n

\* Below, CHOOSE r \in {F(v) : v \in {e}} : TRUE is F(e) with e evaluated
\* once, as the initialiser of a const is.
MinOf(S) == CHOOSE m \in S : \A n \in S : m =< n

RECURSIVE FlattenFrom(_, _)
FlattenFrom(ss, k) == IF k > Len(ss) THEN <<>> ELSE ss[k] \o FlattenFrom(ss, k + 1)

Flatten(ss) == CHOOSE flat \in
                   {(FlattenFrom(s, 1)) :
                       s \in {ss}} : TRUE

Pos(px, pz) == [x |-> px, z |-> pz]

\* GridPosition of column col, row row (initializeBoard: BOARD_MIN + col)
Square(col, row) == Pos(BOARD_MIN + col * TILE_SIZE, BOARD_MIN + row * TILE_SIZE)

\* p.x - q.x and p.z - q.z both below the tolerance 0.1
Near(p, q) == /\ 10 * Abs(p.x - q.x) < TILE_SIZE
              /\ 10 * Abs(p.z - q.z) < TILE_SIZE

Other(color) == IF color = "black" THEN "white" ELSE "black"

\* MoveResult; absent optional fields are <<>>, FALSE and "".  threw marks a
\* call that ended in a TypeError instead of returning.
Result(ok, cap, msg) ==
    [success |-> ok, captured |-> cap, becameKing |-> FALSE, message |-> msg,
     threw |-> FALSE]

Threw == [success |-> FALSE, captured |-> <<>>, becameKing |-> FALSE,
          message |-> "", threw |-> TRUE]

\* ------------------------------------------------------------------------
\* Board model
\* ------------------------------------------------------------------------
IsOnBoard(pos) ==
    /\ pos.x >= BOARD_MIN /\ pos.x =< BOARD_MAX
    /\ pos.z >= BOARD_MIN /\ pos.z =< BOARD_MAX

\* pieces.find(...) : 1-based position of the first match in ps, 0 for null
GetPieceAt(ps, pos) ==
    IF \E i \in 1..Len(ps) : Near(ps[i], pos)
    THEN MinOf({i \in 1..Len(ps) : Near(ps[i], pos)})
    ELSE 0

PosOf(piece) == Pos(piece.x, piece.z)

\* pieces.indexOf(piece): pieces are objects, id stands for their identity
IndexOfId(ps, id) ==
    LET hits == {i \in 1..Len(ps) : ps[i].id = id}
    IN IF hits = {} THEN 0 ELSE MinOf(hits)

\* ------------------------------------------------------------------------
\* Move generator
\* ------------------------------------------------------------------------
GetMovementDirections(piece) ==
    IF piece.isKing
    THEN << Pos(1, 1), Pos(-1, 1), Pos(1, -1), Pos(-1, -1) >>
    ELSE LET forward == IF piece.color = "black" THEN 1 ELSE -1
         IN << Pos(1, forward), Pos(-1, forward) >>

\* a direction test that lets every piece move both ways
IsForwardMoveAnyWay(piece, direction) == TRUE

IsForwardMove(piece, direction) ==
    IF piece.isKing THEN TRUE
    ELSE LET forward == IF piece.color = "black" THEN 1 ELSE -1
         IN direction.z = forward

jumpDirections == << Pos(1, 1), Pos(-1, 1), Pos(1, -1), Pos(-1, -1) >>

Step(fromPos, dir, distance) ==
    Pos(fromPos.x + dir.x * distance * TILE_SIZE,
        fromPos.z + dir.z * distance * TILE_SIZE)

AlreadyCaptured(capturedSoFar, jumpOverPos) ==
    \E k \in 1..Len(capturedSoFar) : Near(capturedSoFar[k], jumpOverPos)

\* The distance at which a scan along dir from fromPos, starting at distance
\* first, leaves its loop (off board or a piece found); 10 if it runs to 9.
ScanStop(ps, fromPos, dir, first) ==
    LET stops == {d \in first..9 :
                    \/ ~IsOnBoard(Step(fromPos, dir, d))
                    \/ GetPieceAt(ps, Step(fromPos, dir, d)) # 0}
    IN IF stops = {} THEN 10 ELSE MinOf(stops)

RECURSIVE GetJumpMovesWithPositions(_, _, _, _)
GetJumpMovesWithPositions(ps, piece, fromPos, capturedSoFar) ==
    LET Landed(landingPos, newCaptured) ==
            CHOOSE jumps \in
                {(IF Len(continuedJumps) > 0 THEN continuedJumps
                 ELSE << [targetPos |-> landingPos, captured |-> newCaptured] >>) :
                    continuedJumps \in {GetJumpMovesWithPositions(ps, piece, landingPos, newCaptured)}} : TRUE
        Landing(jumpOverPos, landingPos) ==
            CHOOSE landed \in
                {(Landed(next[1], next[2])) :
                    next \in {<< landingPos, Append(capturedSoFar, jumpOverPos) >>}} : TRUE
        KingDir(dir) ==
            LET distance == ScanStop(ps, fromPos, dir, 1)
                jumpOverPos == Step(fromPos, dir, distance)
            IN IF distance > 9 \/ ~IsOnBoard(jumpOverPos) THEN <<>>
               ELSE IF ps[GetPieceAt(ps, jumpOverPos)].color = piece.color THEN <<>>
               ELSE IF AlreadyCaptured(capturedSoFar, jumpOverPos) THEN <<>>
               ELSE LET stop == ScanStop(ps, fromPos, dir, distance + 1)
                    IN Flatten([k \in 1..(stop - distance - 1) |->
                          Landing(jumpOverPos, Step(fromPos, dir, distance + k))])
        ManDir(dir) ==
            LET jumpOverPos == Step(fromPos, dir, 1)
                landingPos == Step(fromPos, dir, 2)
            IN IF ~IsOnBoard(jumpOverPos) \/ ~IsOnBoard(landingPos) THEN <<>>
               ELSE LET jumpOverPiece == GetPieceAt(ps, jumpOverPos)
                        landingPiece == GetPieceAt(ps, landingPos)
                    IN IF /\ jumpOverPiece # 0
                          /\ ps[jumpOverPiece].color # piece.color
                          /\ landingPiece = 0
                          /\ ~AlreadyCaptured(capturedSoFar, jumpOverPos)
                       THEN Landing(jumpOverPos, landingPos)
                       ELSE <<>>
    IN Flatten([k \in 1..4 |->
            IF piece.isKing THEN KingDir(jumpDirections[k])
                            ELSE ManDir(jumpDirections[k])])

RECURSIVE GetJumpMoves(_, _, _, _)
\* a jump search that does not look at the colour of the piece jumped over
GetJumpMovesOverAnyPiece(ps, piece, fromPos, capturedSoFar) ==
    LET Landed(landingPos, newCaptured) ==
            CHOOSE jumps \in
                {(IF Len(continuedJumps) > 0 THEN continuedJumps
                 ELSE << Result(TRUE, newCaptured, "") >>) :
                    continuedJumps \in {GetJumpMoves(ps, piece, landingPos, newCaptured)}} : TRUE
        Landing(jumpOverPos, landingPos) ==
            CHOOSE landed \in
                {(Landed(next[1], next[2])) :
                    next \in {<< landingPos, Append(capturedSoFar, jumpOverPos) >>}} : TRUE
        KingDir(dir) ==
            LET distance == ScanStop(ps, fromPos, dir, 1)
                jumpOverPos == Step(fromPos, dir, distance)
            IN IF distance > 9 \/ ~IsOnBoard(jumpOverPos) THEN <<>>
               ELSE IF AlreadyCaptured(capturedSoFar, jumpOverPos) THEN <<>>
               ELSE LET stop == ScanStop(ps, fromPos, dir, distance + 1)
                    IN Flatten([k \in 1..(stop - distance - 1) |->
                          Landing(jumpOverPos, Step(fromPos, dir, distance + k))])
        ManDir(dir) ==
            LET jumpOverPos == Step(fromPos, dir, 1)
                landingPos == Step(fromPos, dir, 2)
            IN IF ~IsOnBoard(jumpOverPos) \/ ~IsOnBoard(landingPos) THEN <<>>
               ELSE LET jumpOverPiece == GetPieceAt(ps, jumpOverPos)
                        landingPiece == GetPieceAt(ps, landingPos)
                    IN IF /\ jumpOverPiece # 0
                          /\ landingPiece = 0
                          /\ ~AlreadyCaptured(capturedSoFar, jumpOverPos)
                       THEN Landing(jumpOverPos, landingPos)
                       ELSE <<>>
    IN Flatten([k \in 1..4 |->
            IF piece.isKing THEN KingDir(jumpDirections[k])
                            ELSE ManDir(jumpDirections[k])])

GetJumpMoves(ps, piece, fromPos, capturedSoFar) ==
    LET Landed(landingPos, newCaptured) ==
            CHOOSE jumps \in
                {(IF Len(continuedJumps) > 0 THEN continuedJumps
                 ELSE << Result(TRUE, newCaptured, "") >>) :
                    continuedJumps \in {GetJumpMoves(ps, piece, landingPos, newCaptured)}} : TRUE
        Landing(jumpOverPos, landingPos) ==
            CHOOSE landed \in
                {(Landed(next[1], next[2])) :
                    next \in {<< landingPos, Append(capturedSoFar, jumpOverPos) >>}} : TRUE
        KingDir(dir) ==
            LET distance == ScanStop(ps, fromPos, dir, 1)
                jumpOverPos == Step(fromPos, dir, distance)
            IN IF distance > 9 \/ ~IsOnBoard(jumpOverPos) THEN <<>>
               ELSE IF ps[GetPieceAt(ps, jumpOverPos)].color = piece.color THEN <<>>
               ELSE IF AlreadyCaptured(capturedSoFar, jumpOverPos) THEN <<>>
               ELSE LET stop == ScanStop(ps, fromPos, dir, distance + 1)
                    IN Flatten([k \in 1..(stop - distance - 1) |->
                          Landing(jumpOverPos, Step(fromPos, dir, distance + k))])
        ManDir(dir) ==
            LET jumpOverPos == Step(fromPos, dir, 1)
                landingPos == Step(fromPos, dir, 2)
            IN IF ~IsOnBoard(jumpOverPos) \/ ~IsOnBoard(landingPos) THEN <<>>
               ELSE LET jumpOverPiece == GetPieceAt(ps, jumpOverPos)
                        landingPiece == GetPieceAt(ps, landingPos)
                    IN IF /\ jumpOverPiece # 0
                          /\ ps[jumpOverPiece].color # piece.color
                          /\ landingPiece = 0
                          /\ ~AlreadyCaptured(capturedSoFar, jumpOverPos)
                       THEN Landing(jumpOverPos, landingPos)
                       ELSE <<>>
    IN Flatten([k \in 1..4 |->
            IF piece.isKing THEN KingDir(jumpDirections[k])
                            ELSE ManDir(jumpDirections[k])])

\* The simple (non-capturing) destinations of a piece, in the code's order
SimpleTargets(ps, piece) ==
    LET directions == GetMovementDirections(piece)
        KingDir(dir) ==
            LET stop == ScanStop(ps, PosOf(piece), dir, 1)
            IN [k \in 1..(stop - 1) |-> Step(PosOf(piece), dir, k)]
        ManDir(dir) ==
            LET oneSpace == Step(PosOf(piece), dir, 1)
            IN IF /\ IsOnBoard(oneSpace)
                  /\ GetPieceAt(ps, oneSpace) = 0
                  /\ IsForwardMove(piece, dir)
               THEN << oneSpace >> ELSE <<>>
    IN Flatten([k \in 1..Len(directions) |->
            IF piece.isKing THEN KingDir(directions[k]) ELSE ManDir(directions[k])])

\* The landing squares of one capture hop of a piece from where it stands
\* (getJumpMoves with nothing captured so far, before its recursion)
HopLandings(ps, piece) ==
    LET fromPos == PosOf(piece)
        KingDir(dir) ==
            LET distance == ScanStop(ps, fromPos, dir, 1)
                jumpOverPos == Step(fromPos, dir, distance)
            IN IF distance > 9 \/ ~IsOnBoard(jumpOverPos) THEN {}
               ELSE IF ps[GetPieceAt(ps, jumpOverPos)].color = piece.color THEN {}
               ELSE LET stop == ScanStop(ps, fromPos, dir, distance + 1)
                    IN {Step(fromPos, dir, distance + k) : k \in 1..(stop - distance - 1)}
        ManDir(dir) ==
            LET jumpOverPos == Step(fromPos, dir, 1)
                landingPos == Step(fromPos, dir, 2)
            IN IF ~IsOnBoard(jumpOverPos) \/ ~IsOnBoard(landingPos) THEN {}
               ELSE LET jumpOverPiece == GetPieceAt(ps, jumpOverPos)
                    IN IF /\ jumpOverPiece # 0
                          /\ ps[jumpOverPiece].color # piece.color
                          /\ GetPieceAt(ps, landingPos) = 0
                       THEN {landingPos} ELSE {}
    IN UNION {IF piece.isKing THEN KingDir(jumpDirections[k])
                              ELSE ManDir(jumpDirections[k]) : k \in 1..4}

GetValidMoves(ps, piece) ==
    LET simple == SimpleTargets(ps, piece)
    IN [k \in 1..Len(simple) |-> Result(TRUE, <<>>, "")]
       \o GetJumpMoves(ps, piece, PosOf(piece), <<>>)

CanCapture(ps, piece) ==
    \E moves \in {GetValidMoves(board, p) : board \in {ps}, p \in {piece}} :
        \E k \in 1..Len(moves) : Len(moves[k].captured) > 0

HasAvailableJumps(ps, color) ==
    \E i \in 1..Len(ps) : ps[i].color = color /\ CanCapture(ps, ps[i])

\* a getValidMovesForPiece that lists the simple moves whether or not the
\* side has a capture
GetValidMovesForPieceAlways(ps, piece) ==
    CHOOSE moves \in
        {(LET simple == SimpleTargets(of[1], of[2])
         IN [k \in 1..Len(simple) |-> [targetPos |-> simple[k], captured |-> <<>>]]
            \o GetJumpMovesWithPositions(of[1], of[2], PosOf(of[2]), <<>>)) :
            of \in {<< ps, piece >>}} : TRUE

GetValidMovesForPiece(ps, piece) ==
    CHOOSE moves \in
        {(LET simple == IF ~HasAvailableJumps(of[1], of[2].color)
                       THEN SimpleTargets(of[1], of[2]) ELSE <<>>
         IN [k \in 1..Len(simple) |-> [targetPos |-> simple[k], captured |-> <<>>]]
            \o GetJumpMovesWithPositions(of[1], of[2], PosOf(of[2]), <<>>)) :
            of \in {<< ps, piece >>}} : TRUE

\* ------------------------------------------------------------------------
\* State of one CheckersManager.  pieces is the piece list in list order;
\* the id of a piece stands for the identity of its object.  Indices stored
\* in selectedPieceIndex and mustCaptureFrom are 0-based as in the code.
\* ------------------------------------------------------------------------
VARIABLES pieces, selectedPieceIndex, currentPlayer, startingPlayer,
          mustCaptureFrom,
          last,        \* the public call that has just returned and its
                       \* result, Idle once the caller has taken it
          chainPiece,  \* id of the piece bound by lines 627-629, else 0
          budget,      \* successful moves still explored
          games,       \* initializeBoard calls made
          botThinking, \* the field of that name
          bot          \* the makeBotMove invocation in progress: where it
                       \* stands and its local variables

vars == << pieces, selectedPieceIndex, currentPlayer, startingPlayer,
           mustCaptureFrom, last, chainPiece, budget, games, botThinking, bot >>

botVars == << botThinking, bot >>

\* `this` as seen by the private methods
This == [pieces |-> pieces, selectedPieceIndex |-> selectedPieceIndex,
         currentPlayer |-> currentPlayer, mustCaptureFrom |-> mustCaptureFrom]

NewPiece(id, pos, color) ==
    [id |-> id, x |-> pos.x, z |-> pos.z, color |-> color,
     isKing |-> FALSE, hasMoved |-> FALSE]

IsDarkSquare(row, col) == (row + col) % 2 = 1

\* blackPositions / whitePositions of initializeBoard, row by row
RowPositions(row) ==
    LET cols == SelectSeq([c \in 1..10 |-> c - 1], LAMBDA col : IsDarkSquare(row, col))
    IN [k \in 1..Len(cols) |-> Square(cols[k], row)]

BlackPositions == Flatten([r \in 1..PIECES_PER_SIDE_ROWS |-> RowPositions(r - 1)])

WhitePositions ==
    Flatten([r \in 1..PIECES_PER_SIDE_ROWS |->
                RowPositions(r - 1 + WHITE_PIECE_START_ROW)])

InitialPieces ==
    [k \in 1..Len(BlackPositions) |-> NewPiece(k, BlackPositions[k], "black")]
    \o [k \in 1..Len(WhitePositions) |->
            NewPiece(Len(BlackPositions) + k, WhitePositions[k], "white")]

\* ------------------------------------------------------------------------
\* Private mutators; each returns the manager after the call
\* ------------------------------------------------------------------------
RemoveAt(ps, index) ==
    [k \in 1..(Len(ps) - 1) |-> IF k < index THEN ps[k] ELSE ps[k + 1]]

\* a removePiece that leaves selectedPieceIndex as it is
RemovePieceKeepSelection(m, pi) ==
    LET index == pi - 1
    IN [m EXCEPT
          !.pieces = RemoveAt(m.pieces, pi),
          !.mustCaptureFrom =
              [k \in 1..Len(m.mustCaptureFrom) |->
                  IF m.mustCaptureFrom[k] > index THEN m.mustCaptureFrom[k] - 1
                  ELSE m.mustCaptureFrom[k]]]

\* removePiece(piece), piece = m.pieces[pi]; the code's index is pi - 1
RemovePiece(m, pi) ==
    LET index == pi - 1
    IN [m EXCEPT
          !.pieces = RemoveAt(m.pieces, pi),
          !.selectedPieceIndex =
              IF m.selectedPieceIndex > index THEN m.selectedPieceIndex - 1
              ELSE IF m.selectedPieceIndex = index THEN -1
              ELSE m.selectedPieceIndex,
          !.mustCaptureFrom =
              [k \in 1..Len(m.mustCaptureFrom) |->
                  IF m.mustCaptureFrom[k] > index THEN m.mustCaptureFrom[k] - 1
                  ELSE m.mustCaptureFrom[k]]]

DeselectPieceIn(m) ==
    IF m.selectedPieceIndex >= 0 /\ m.selectedPieceIndex < Len(m.pieces)
    THEN [m EXCEPT !.selectedPieceIndex = -1] ELSE m

\* a check made for the side that has just moved
CheckForForcedCapturesOfMover(m) ==
    LET piecesWithCaptures ==
            SelectSeq([i \in 1..Len(m.pieces) |-> i - 1],
                      LAMBDA index :
                          /\ m.pieces[index + 1].color = Other(m.currentPlayer)
                          /\ CanCapture(m.pieces, m.pieces[index + 1]))
    IN [m EXCEPT !.mustCaptureFrom = piecesWithCaptures]

CheckForForcedCaptures(m) ==
    LET piecesWithCaptures ==
            SelectSeq([i \in 1..Len(m.pieces) |-> i - 1],
                      LAMBDA index :
                          /\ m.pieces[index + 1].color = m.currentPlayer
                          /\ CanCapture(m.pieces, m.pieces[index + 1]))
    IN [m EXCEPT !.mustCaptureFrom = piecesWithCaptures]

\* a checkKingPromotion that promotes only beyond the last row
CheckKingPromotionBeyond(piece) ==
    IF piece.isKing THEN FALSE
    ELSE IF piece.color = "black" /\ piece.z > BOARD_MAX THEN TRUE
    ELSE IF piece.color = "white" /\ piece.z < BOARD_MIN THEN TRUE
    ELSE FALSE

CheckKingPromotion(piece) ==
    IF piece.isKing THEN FALSE
    ELSE IF piece.color = "black" /\ piece.z >= BOARD_MAX THEN TRUE
    ELSE IF piece.color = "white" /\ piece.z =< BOARD_MIN THEN TRUE
    ELSE FALSE

\* a move that puts a new piece on the destination and leaves the piece
\* on its origin
MoveToLeavingCopy(m, pi, targetPos) ==
    [m EXCEPT !.pieces =
        Append(m.pieces, [m.pieces[pi] EXCEPT !.x = targetPos.x, !.z = targetPos.z,
                                              !.id = 100 + Len(m.pieces)])]

MoveTo(m, pi, targetPos) ==
    [m EXCEPT !.pieces[pi].x = targetPos.x, !.pieces[pi].z = targetPos.z]

\* Indices i = 1, 2, ... with i < steps (steps a length in tiles) at which a
\* piece stands on the way from the piece to the target
PiecesOnPath(ps, fromPos, stepX, stepZ, steps) ==
    {i \in 1..(steps \div TILE_SIZE) :
                  /\ i * TILE_SIZE < steps
                  /\ GetPieceAt(ps, Pos(fromPos.x + stepX * i * TILE_SIZE,
                                       fromPos.z + stepZ * i * TILE_SIZE)) # 0}

Sign(n) == IF n < 0 THEN -1 ELSE 1

\* The move executors below take jumpsAvailable, the value of
\* this.hasAvailableJumps(piece.color) in the state of the call: it depends on
\* the board only, and the caller evaluates it once for all destinations.
ExecuteRegularMove(m, pi, targetPos, jumpsAvailable) ==
    LET piece == m.pieces[pi]
        dx == targetPos.x - piece.x
        dz == targetPos.z - piece.z
    IN IF jumpsAvailable
       THEN [m |-> m, result |-> Result(FALSE, <<>>, "Must capture when available")]
       ELSE IF Abs(dx) # TILE_SIZE \/ Abs(dz) # TILE_SIZE
       THEN [m |-> m, result |-> Result(FALSE, <<>>, "Must move diagonally")]
       ELSE IF ~piece.isKing /\ ~IsForwardMove(piece, Pos(dx \div TILE_SIZE, dz \div TILE_SIZE))
       THEN [m |-> m, result |-> Result(FALSE, <<>>, "Regular pieces can only move forward")]
       ELSE [m |-> MoveTo(m, pi, targetPos), result |-> Result(TRUE, <<>>, "")]

IsValidKingMove(ps, piece, targetPos) ==
    LET dx == targetPos.x - piece.x
        dz == targetPos.z - piece.z
    IN IF ~piece.isKing THEN FALSE
       ELSE IF Abs(dx) # Abs(dz) THEN FALSE
       ELSE PiecesOnPath(ps, PosOf(piece), Sign(dx), Sign(dz), Abs(dx)) = {}

\* a king move that does not look at the forced capture
ExecuteKingMoveUnforced(m, pi, targetPos, jumpsAvailable) ==
    [m |-> MoveTo(m, pi, targetPos), result |-> Result(TRUE, <<>>, "")]

ExecuteKingMove(m, pi, targetPos, jumpsAvailable) ==
    IF jumpsAvailable
    THEN [m |-> m, result |-> Result(FALSE, <<>>, "Must capture when available")]
    ELSE [m |-> MoveTo(m, pi, targetPos), result |-> Result(TRUE, <<>>, "")]

\* lines 735-788 of executeJumpMove: the message of the check that rejects
\* the jump ("" when none does) and the piece found on the way
JumpOver(m, pi, targetPos) ==
    LET piece == m.pieces[pi]
        dx == targetPos.x - piece.x
        dz == targetPos.z - piece.z
        distance == Abs(dx)
        onPath == PiecesOnPath(m.pieces, PosOf(piece), Sign(dx), Sign(dz), distance)
        Rejected(msg) == [message |-> msg, jumpOverPos |-> PosOf(piece), jumpOverPiece |-> 0]
    IN IF Abs(dx) # Abs(dz) THEN Rejected("Jump must be diagonal")
       ELSE IF ~piece.isKing /\ distance # 2 * TILE_SIZE THEN Rejected("Invalid jump distance")
       ELSE IF piece.isKing /\ distance < 2 * TILE_SIZE THEN Rejected("Invalid jump distance")
       ELSE IF Cardinality(onPath) >= 2
       THEN Rejected("Cannot jump over two pieces in one move")
       ELSE IF onPath = {} THEN Rejected("No piece to jump over")
       ELSE LET i == MinOf(onPath)
                jumpOverPos == Pos(piece.x + Sign(dx) * i * TILE_SIZE,
                                   piece.z + Sign(dz) * i * TILE_SIZE)
                jumpOverPiece == GetPieceAt(m.pieces, jumpOverPos)
            IN IF m.pieces[jumpOverPiece].color = piece.color
               THEN Rejected("Cannot jump over own piece")
               ELSE [message |-> "", jumpOverPos |-> jumpOverPos,
                     jumpOverPiece |-> jumpOverPiece]

\* a jump that relocates the piece before it validates the jump
ExecuteJumpMoveUnchecked(m, pi, targetPos) ==
    LET jump == JumpOver(m, pi, targetPos)
    IN IF jump.message # ""
       THEN [m |-> MoveTo(m, pi, targetPos), result |-> Result(FALSE, <<>>, jump.message)]
       ELSE [m |-> RemovePiece(MoveTo(m, pi, targetPos), jump.jumpOverPiece),
             result |-> Result(TRUE, << jump.jumpOverPos >>, "")]

\* a jump that holds a man to its forward directions
ExecuteJumpMoveForwardOnly(m, pi, targetPos) ==
    LET jump == JumpOver(m, pi, targetPos)
        piece == m.pieces[pi]
    IN IF jump.message # ""
       THEN [m |-> m, result |-> Result(FALSE, <<>>, jump.message)]
       ELSE IF ~IsForwardMove(piece, Pos(0, Sign(targetPos.z - piece.z)))
       THEN [m |-> m, result |-> Result(FALSE, <<>>, "Invalid move")]
       ELSE [m |-> RemovePiece(MoveTo(m, pi, targetPos), jump.jumpOverPiece),
             result |-> Result(TRUE, << jump.jumpOverPos >>, "")]

ExecuteJumpMove(m, pi, targetPos) ==
    LET jump == JumpOver(m, pi, targetPos)
    IN IF jump.message # ""
       THEN [m |-> m, result |-> Result(FALSE, <<>>, jump.message)]
       ELSE [m |-> RemovePiece(MoveTo(m, pi, targetPos), jump.jumpOverPiece),
             result |-> Result(TRUE, << jump.jumpOverPos >>, "")]

\* ------------------------------------------------------------------------
\* movePiece
\* ------------------------------------------------------------------------
NoPieceSelected == Result(FALSE, <<>>, "No piece selected")

WrongTurn(m) ==
    Result(FALSE, <<>>, IF m.currentPlayer = "black" THEN "It's black's turn"
                                                     ELSE "It's white's turn")

MustContinue == Result(FALSE, <<>>, "You must continue capturing with the same piece.")

TargetOccupied == Result(FALSE, <<>>, "Target position is occupied")

\* the initial value of result, returned as it is
InvalidMoveNoMessage == Result(FALSE, <<>>, "")

InvalidMove == Result(FALSE, <<>>, "Invalid move")

InvalidMoveDistance == Result(FALSE, <<>>, "Invalid move distance")

\* lines 571-611: the move type chosen from the geometry, and its execution
DispatchMove(m, pi, targetPos, jumpsAvailable) ==
    LET piece == m.pieces[pi]
        dx == targetPos.x - piece.x
        dz == targetPos.z - piece.z
        distance2 == dx * dx + dz * dz          \* distance squared
        absDx == Abs(dx)
        absDz == Abs(dz)
        isDiagonal == 10 * Abs(absDx - absDz) < TILE_SIZE
    IN IF isDiagonal /\ 4 * distance2 >= 25 * TILE_SIZE * TILE_SIZE
       THEN IF PiecesOnPath(m.pieces, PosOf(piece), Sign(dx), Sign(dz), absDx) # {}
            THEN ExecuteJumpMove(m, pi, targetPos)
            ELSE IF piece.isKing /\ IsValidKingMove(m.pieces, piece, targetPos)
            THEN ExecuteKingMove(m, pi, targetPos, jumpsAvailable)
            ELSE [m |-> m, result |-> InvalidMove]
       ELSE IF /\ 100 * distance2 > 144 * TILE_SIZE * TILE_SIZE
               /\ 100 * distance2 < 256 * TILE_SIZE * TILE_SIZE
       THEN ExecuteRegularMove(m, pi, targetPos, jumpsAvailable)
       ELSE [m |-> m, result |-> InvalidMoveDistance]

\* a promotion that assigns the outcome of checkKingPromotion to isKing
PromoteAssign(piece, shouldPromote) == [piece EXCEPT !.isKing = shouldPromote]

\* lines 618-624
Promote(piece, shouldPromote) ==
    IF shouldPromote THEN [piece EXCEPT !.isKing = TRUE] ELSE piece

\* a continuation decided with the rules of a man
ContinuesJumpingAsMan(ps, piece, result) ==
    Len(result.captured) > 0 /\ CanCapture(ps, [piece EXCEPT !.isKing = FALSE])

\* a continuation that does not ask whether the move captured
ContinuesJumpingAnyMove(ps, piece, result) == CanCapture(ps, piece)

\* line 627, evaluated on the piece after promotion
ContinuesJumping(ps, piece, result) ==
    Len(result.captured) > 0 /\ CanCapture(ps, piece)

\* lines 613-645: what a successful move does to the game state
FinishMove(m, id, result) ==
    LET pi == IndexOfId(m.pieces, id)
        shouldPromote == CheckKingPromotion(m.pieces[pi])
        piece == Promote([m.pieces[pi] EXCEPT !.hasMoved = TRUE], shouldPromote)
        m1 == [m EXCEPT !.pieces[pi] = piece]
        result1 == [result EXCEPT !.becameKing = shouldPromote]
    IN IF ContinuesJumping(m1.pieces, piece, result1)
       THEN [m |-> [m1 EXCEPT !.mustCaptureFrom = << m1.selectedPieceIndex >>],
             result |-> result1, continues |-> TRUE]
       ELSE [m |-> CheckForForcedCaptures(DeselectPieceIn(
                       [m1 EXCEPT !.currentPlayer = Other(m1.currentPlayer),
                                  !.mustCaptureFrom = <<>>])),
             result |-> result1, continues |-> FALSE]

Includes(seq, v) == \E k \in 1..Len(seq) : seq[k] = v

\* the checks of lines 545-559 with the forced-capture check made before
\* the check of the side to move
EarlyReturnCaptureFirst(m) ==
    IF m.selectedPieceIndex < 0 THEN [rejected |-> TRUE, result |-> NoPieceSelected]
    ELSE IF m.selectedPieceIndex >= Len(m.pieces) THEN [rejected |-> TRUE, result |-> Threw]
    ELSE IF /\ Len(m.mustCaptureFrom) > 0
            /\ ~Includes(m.mustCaptureFrom, m.selectedPieceIndex)
    THEN [rejected |-> TRUE, result |-> MustContinue]
    ELSE IF m.pieces[m.selectedPieceIndex + 1].color # m.currentPlayer
    THEN [rejected |-> TRUE, result |-> WrongTurn(m)]
    ELSE [rejected |-> FALSE, result |-> Result(FALSE, <<>>, "")]

\* lines 545-559: the checks made before the destination is looked at
EarlyReturn(m) ==
    IF m.selectedPieceIndex < 0 THEN [rejected |-> TRUE, result |-> NoPieceSelected]
    ELSE IF m.selectedPieceIndex >= Len(m.pieces) THEN [rejected |-> TRUE, result |-> Threw]
    ELSE IF m.pieces[m.selectedPieceIndex + 1].color # m.currentPlayer
    THEN [rejected |-> TRUE, result |-> WrongTurn(m)]
    ELSE IF /\ Len(m.mustCaptureFrom) > 0
            /\ ~Includes(m.mustCaptureFrom, m.selectedPieceIndex)
    THEN [rejected |-> TRUE, result |-> MustContinue]
    ELSE [rejected |-> FALSE, result |-> Result(FALSE, <<>>, "")]

MovePieceCall(m, targetPos, jumpsAvailable) ==
    LET Return(r) == [m |-> m, result |-> r, continues |-> FALSE]
        early == EarlyReturn(m)
    IN IF early.rejected THEN Return(early.result)
       ELSE LET pi == m.selectedPieceIndex + 1
            IN IF GetPieceAt(m.pieces, targetPos) # 0 THEN Return(TargetOccupied)
               ELSE CHOOSE returned \in
                        {(IF moved.result.success
                         THEN FinishMove(moved.m, m.pieces[pi].id, moved.result)
                         ELSE [m |-> moved.m, result |-> moved.result,
                               continues |-> FALSE]) :
                            moved \in {DispatchMove(m, pi, targetPos, jumpsAvailable)}} : TRUE

\* ------------------------------------------------------------------------
\* Queries
\* ------------------------------------------------------------------------
\* "none" stands for a message without the forced-capture notice
GetStatusMessage(m) ==
    [player |-> m.currentPlayer,
     notice |-> IF Len(m.mustCaptureFrom) > 0 THEN "Must capture!" ELSE "none"]

CountOf(ps, color) == Cardinality({i \in 1..Len(ps) : ps[i].color = color})

\* "none" stands for null
CheckWinner(ps) ==
    IF CountOf(ps, "black") = 0 THEN "white"
    ELSE IF CountOf(ps, "white") = 0 THEN "black"
    ELSE "none"

GetPieceCounts(ps) == [black |-> CountOf(ps, "black"), white |-> CountOf(ps, "white")]

\* a hasValidMoves that looks at the pieces of both sides
HasValidMovesOfAnySide(m) ==
    \E i \in 1..Len(m.pieces) : Len(GetValidMoves(m.pieces, m.pieces[i])) > 0

HasValidMoves(m) ==
    \E i \in 1..Len(m.pieces) :
        /\ m.pieces[i].color = m.currentPlayer
        /\ Len(GetValidMoves(m.pieces, m.pieces[i])) > 0

\* ------------------------------------------------------------------------
\* Inputs of the public calls
\* ------------------------------------------------------------------------
\* Destinations a caller may pass: the centre of every square of the board
\* and of one ring of squares around it, and for every dark square of the
\* board the point a quarter tile off its centre in x and in z.
CentreCoords == {BOARD_MIN + k * TILE_SIZE : k \in -1..BOARD_SIZE}

OffCentre(col, row) ==
    Pos(Square(col, row).x + TILE_SIZE \div 4, Square(col, row).z + TILE_SIZE \div 4)

Targets ==
    {Pos(tx, tz) : tx \in CentreCoords, tz \in CentreCoords}
    \cup {OffCentre(sq[1], sq[2]) :
             sq \in {s \in (0..(BOARD_SIZE - 1)) \X (0..(BOARD_SIZE - 1)) :
                        (s[1] + s[2]) % 2 = 1}}

NoResult == Result(FALSE, <<>>, "")

Call(op, result, mover) == [op |-> op, result |-> result, mover |-> mover]

Idle == Call("idle", NoResult, 0)

\* ------------------------------------------------------------------------
\* The bot (makeBotMove)
\* ------------------------------------------------------------------------
botEnabled == TRUE

botColor == "black"

\* no makeBotMove invocation in progress; moves, next, best and bestScore
\* are the locals of the invocation: the candidates, the index of the next
\* candidate to score, and the candidate that sorts first among those
\* scored so far with its score.  chosen is the id of the piece that line
\* 1010 selected, outcome how the last invocation ended: "returned",
\* "again" (returned after line 1022 scheduled another makeBotMove) or
\* "threw"
NoBotMove ==
    [pc |-> "idle", moves |-> <<>>, next |-> 0, best |-> 0, bestScore |-> 0,
     chosen |-> 0, outcome |-> "none"]

WouldBecomeKing(piece, pos) ==
    IF piece.isKing THEN FALSE
    ELSE IF piece.color = "black" /\ pos.z >= BOARD_MAX THEN TRUE
    ELSE IF piece.color = "white" /\ pos.z =< BOARD_MIN THEN TRUE
    ELSE FALSE

\* lines 955-957: the list indices of the bot's pieces
BotPieces(m) ==
    SelectSeq([i \in 1..Len(m.pieces) |-> i - 1],
              LAMBDA index : m.pieces[index + 1].color = botColor)

\* line 961
PiecesToConsider(botPieces, piecesWithCaptures) ==
    IF Len(piecesWithCaptures) > 0 THEN piecesWithCaptures ELSE botPieces

\* lines 977-995 without the score: the candidates that the moves of one
\* piece add to allMoves
BotMovesOf(index, piece, moves) ==
    [k \in 1..Len(moves) |->
        [pieceIndex |-> index,
         targetPos |-> moves[k].targetPos,
         captureCount |-> Len(moves[k].captured),
         becomesKing |-> WouldBecomeKing(piece, moves[k].targetPos),
         isKing |-> piece.isKing]]

\* lines 974-996: allMoves for the pieces to consider
AllMovesOf(m, piecesToConsider) ==
    Flatten([k \in 1..Len(piecesToConsider) |->
        CHOOSE added \in
            {(BotMovesOf(piecesToConsider[k], m.pieces[piecesToConsider[k] + 1], moves)) :
                moves \in {GetValidMovesForPiece(m.pieces, m.pieces[piecesToConsider[k] + 1])}} : TRUE])

\* lines 955-996 without the score: the candidates in the order of allMoves
BotCandidates(m) ==
    CHOOSE allMoves \in
        {(AllMovesOf(m, piecesToConsider)) :
            piecesToConsider \in {PiecesToConsider(BotPieces(m),
               SelectSeq(BotPieces(m),
                         LAMBDA index : CanCapture(m.pieces, m.pieces[index + 1])))}} : TRUE

\* the values of Math.random() * 2, in steps of 1/ScoreScale
Jitters == 0..(2 * ScoreScale - 1)

\* a score that gives a capture the weight of a promotion
MoveScoreCaptureFive(move, jitter) ==
    (move.captureCount * 5
        + (IF move.becomesKing THEN 5 ELSE 0)
        + (IF move.isKing THEN 1 ELSE 0)) * ScoreScale + jitter

\* lines 982-986, in steps of 1/ScoreScale
MoveScore(move, jitter) ==
    (move.captureCount * 10
        + (IF move.becomesKing THEN 5 ELSE 0)
        + (IF move.isKing THEN 1 ELSE 0)) * ScoreScale + jitter

\* ------------------------------------------------------------------------
\* Mid-game positions.  Each is a position of a game in progress: every
\* piece on a dark square of the board, no man on its promotion row, black
\* pieces before white pieces in the list (creation order, which removals
\* keep), the forced-capture set as checkForForcedCaptures leaves it at the
\* start of a turn, nothing selected.
\* ------------------------------------------------------------------------
Man(id, col, row, color) ==
    [NewPiece(id, Square(col, row), color) EXCEPT !.hasMoved = TRUE]

King(id, col, row, color) ==
    [Man(id, col, row, color) EXCEPT !.isKing = TRUE]

MidGamePositions ==
    { \* a white man with a double capture, a second white man
      << Man(1, 3, 4, "black"), Man(2, 3, 6, "black"),
         Man(3, 4, 7, "white"), Man(4, 8, 7, "white") >>,
      \* a black man with a double capture, a second black man
      << Man(1, 0, 1, "black"), Man(2, 3, 2, "black"),
         Man(3, 4, 3, "white"), Man(4, 4, 5, "white") >>,
      \* a white man that captures onto row 0, with and without a king
      \* capture from there
      << Man(1, 2, 1, "black"), Man(2, 4, 1, "black"), Man(3, 5, 4, "black"),
         Man(4, 3, 2, "white") >>,
      \* a white king facing two black men on one diagonal, a black king
      << Man(1, 3, 6, "black"), Man(2, 6, 3, "black"), King(3, 9, 0, "black"),
         King(4, 0, 9, "white") >>,
      \* a white king and two black men with no capture on the board
      << Man(1, 2, 1, "black"), Man(2, 3, 2, "black"), King(3, 4, 5, "white") >>,
      \* a white king with two black men in a row on its diagonal, which it
      \* cannot capture
      << Man(1, 1, 2, "black"), Man(2, 2, 3, "black"), King(3, 4, 5, "white") >>,
      \* two men that have passed each other, each with a capture backward
      << Man(1, 5, 4, "black"), Man(2, 4, 3, "white") >> }

\* ------------------------------------------------------------------------
\* Initial states
\* ------------------------------------------------------------------------
\* the manager after its constructor
Init ==
    /\ pieces = <<>>
    /\ selectedPieceIndex = -1
    /\ currentPlayer = "white"
    /\ startingPlayer = "white"
    /\ mustCaptureFrom = <<>>
    /\ last = Idle
    /\ chainPiece = 0
    /\ budget = GamePlies
    /\ games = 0
    /\ botThinking = FALSE
    /\ bot = NoBotMove

\* a game in progress, at the start of either side's turn
InitMid ==
    \E ps \in MidGamePositions, player \in {"black", "white"} :
        LET m == CheckForForcedCaptures(
                    [pieces |-> ps, selectedPieceIndex |-> -1,
                     currentPlayer |-> player, mustCaptureFrom |-> <<>>])
        IN /\ pieces = ps
           /\ selectedPieceIndex = -1
           /\ currentPlayer = player
           /\ startingPlayer = "white"
           /\ mustCaptureFrom = m.mustCaptureFrom
           /\ last = Idle
           /\ chainPiece = 0
           /\ budget = MaxPlies
           /\ games = 1
           /\ botThinking = FALSE
           /\ bot = NoBotMove

\* ------------------------------------------------------------------------
\* Public calls
\* ------------------------------------------------------------------------
SetManager(m) ==
    /\ pieces' = m.pieces
    /\ selectedPieceIndex' = m.selectedPieceIndex
    /\ currentPlayer' = m.currentPlayer
    /\ mustCaptureFrom' = m.mustCaptureFrom

\* an initializeBoard that does not call removeAllPieces
InitializeBoardKeepPieces ==
    /\ last = Idle
    /\ games < MaxGames
    /\ pieces' = pieces \o InitialPieces
    /\ startingPlayer' = "white"
    /\ currentPlayer' = "white"
    /\ UNCHANGED << selectedPieceIndex, mustCaptureFrom >>
    /\ last' = Call("initializeBoard", NoResult, 0)
    /\ chainPiece' = 0
    /\ budget' = 0
    /\ games' = games + 1
    /\ UNCHANGED botVars

InitializeBoard ==
    /\ last = Idle
    /\ games < MaxGames
    /\ pieces' = InitialPieces                 \* removeAllPieces, createPiece
    /\ selectedPieceIndex' = -1                \* removeAllPieces
    /\ startingPlayer' = "white"
    /\ currentPlayer' = "white"
    /\ UNCHANGED mustCaptureFrom
    /\ last' = Call("initializeBoard", NoResult, 0)
    /\ chainPiece' = 0
    /\ budget' = IF games = 0 THEN budget
                  ELSE IF budget > RestartPlies THEN RestartPlies ELSE budget
    /\ games' = games + 1
    /\ UNCHANGED botVars

SelectPieceByIndex(index) ==
    /\ last = Idle
    /\ selectedPieceIndex' =
           IF index >= 0 /\ index < Len(pieces) THEN index ELSE selectedPieceIndex
    /\ last' = Call("selectPieceByIndex", NoResult, 0)
    /\ UNCHANGED << pieces, currentPlayer, startingPlayer, mustCaptureFrom,
                    chainPiece, budget, games >>
    /\ UNCHANGED botVars

DeselectPiece ==
    /\ last = Idle
    /\ SetManager(DeselectPieceIn(This))
    /\ last' = Call("deselectPiece", NoResult, 0)
    /\ UNCHANGED << startingPlayer, chainPiece, budget, games >>
    /\ UNCHANGED botVars

SelectedId ==
    IF selectedPieceIndex >= 0 /\ selectedPieceIndex < Len(pieces)
    THEN pieces[selectedPieceIndex + 1].id ELSE 0

\* movePiece(targetPos) for a call that returns at lines 545-559, whatever
\* targetPos is
MovePieceEarly ==
    /\ last = Idle
    /\ EarlyReturn(This).rejected
    /\ Targets # {}
    /\ last' = Call("movePiece", EarlyReturn(This).result, SelectedId)
    /\ UNCHANGED << pieces, selectedPieceIndex, currentPlayer, startingPlayer,
                    mustCaptureFrom, chainPiece, budget, games >>
    /\ UNCHANGED botVars

\* movePiece(targetPos) for a call that gets to line 562
MovePiece ==
    /\ last = Idle
    /\ ~EarlyReturn(This).rejected
    /\ UNCHANGED botVars
    /\ \E jumpsAvailable \in
            {HasAvailableJumps(pieces, pieces[selectedPieceIndex + 1].color)} :
       \E targetPos \in Targets :
       \E r \in {MovePieceCall(This, targetPos, jumpsAvailable)} :
          /\ r.result.success => budget > 0
          /\ SetManager(r.m)
          /\ last' = Call("movePiece", r.result, SelectedId)
          /\ chainPiece' = IF ~r.result.success THEN chainPiece
                           ELSE IF r.continues THEN SelectedId ELSE 0
          /\ budget' = IF r.result.success THEN budget - 1 ELSE budget
          /\ UNCHANGED << startingPlayer, games >>

\* a skipTurn that only switches the side and clears the selection
SkipTurnKeepForced(m) ==
    DeselectPieceIn([m EXCEPT !.currentPlayer = Other(m.currentPlayer)])

\* lines 920-925
SkipTurnIn(m) ==
    CheckForForcedCaptures(DeselectPieceIn(
        [m EXCEPT !.currentPlayer = Other(m.currentPlayer),
                  !.mustCaptureFrom = <<>>]))

\* skipTurn(); the call records the piece that was bound to a multi-jump
\* when it was made
SkipTurn ==
    /\ last = Idle
    /\ SetManager(SkipTurnIn(This))
    /\ last' = Call("skipTurn", NoResult, chainPiece)
    /\ chainPiece' = 0
    /\ UNCHANGED << startingPlayer, budget, games >>
    /\ UNCHANGED botVars

\* the caller takes the result of the call; the manager is synchronous, so
\* the next call starts only after that
Return ==
    /\ last # Idle
    /\ last' = Idle
    /\ UNCHANGED << pieces, selectedPieceIndex, currentPlayer, startingPlayer,
                    mustCaptureFrom, chainPiece, budget, games >>
    /\ UNCHANGED botVars

\* every public call
Next ==
    \/ InitializeBoard
    \/ \E index \in -1..Len(pieces) : SelectPieceByIndex(index)
    \/ DeselectPiece
    \/ MovePieceEarly
    \/ MovePiece
    \/ SkipTurn
    \/ Return

\* the calls made while a game is played
NextPlay ==
    \/ \E index \in -1..Len(pieces) : SelectPieceByIndex(index)
    \/ DeselectPiece
    \/ MovePieceEarly
    \/ MovePiece
    \/ SkipTurn
    \/ Return

Spec == Init /\ [][Next]_vars

SpecMid == InitMid /\ [][NextPlay]_vars

\* a game in progress, followed for GamePlies moves
InitMidShort ==
    \E ps \in MidGamePositions, player \in {"black", "white"} :
        LET m == CheckForForcedCaptures(
                    [pieces |-> ps, selectedPieceIndex |-> -1,
                     currentPlayer |-> player, mustCaptureFrom |-> <<>>])
        IN /\ pieces = ps
           /\ selectedPieceIndex = -1
           /\ currentPlayer = player
           /\ startingPlayer = "white"
           /\ mustCaptureFrom = m.mustCaptureFrom
           /\ last = Idle
           /\ chainPiece = 0
           /\ budget = GamePlies
           /\ games = 1
           /\ botThinking = FALSE
           /\ bot = NoBotMove

SpecMidShort == InitMidShort /\ [][NextPlay]_vars

\* a game in progress that may be restarted with initializeBoard
SpecRestart == InitMid /\ [][Next]_vars

\* ------------------------------------------------------------------------
\* makeBotMove.  The invocation runs in three pieces separated by its two
\* waits; the calls of the other player may run during the waits.  The loop
\* of lines 974-996 is taken one iteration at a time, and nothing else runs
\* between its iterations.
\* ------------------------------------------------------------------------
\* an isBotTurn that does not look at the thinking flag
IsBotTurnWhileThinking == botEnabled /\ currentPlayer = botColor

IsBotTurn == botEnabled /\ currentPlayer = botColor /\ ~botThinking

\* lines 944-952: the call up to its first wait
BotStart ==
    /\ last = Idle
    /\ bot.pc = "idle"
    /\ budget > 0
    /\ IsBotTurn
    /\ botThinking' = TRUE
    /\ bot' = [NoBotMove EXCEPT !.pc = "thinking"]
    /\ UNCHANGED << pieces, selectedPieceIndex, currentPlayer, startingPlayer,
                    mustCaptureFrom, last, chainPiece, budget, games >>

\* lines 955-972 after the first wait, when there are candidates
BotCollect ==
    /\ last = Idle
    /\ bot.pc = "thinking"
    /\ LET allMoves == BotCandidates(This)
       IN /\ Len(allMoves) > 0
          /\ bot' = [bot EXCEPT !.pc = "scoring", !.moves = allMoves, !.next = 1]
    /\ UNCHANGED << pieces, selectedPieceIndex, currentPlayer, startingPlayer,
                    mustCaptureFrom, last, chainPiece, budget, games, botThinking >>

\* the no-candidate branch without line 1000
BotSkipStillThinking ==
    /\ last = Idle
    /\ bot.pc = "thinking"
    /\ Len(BotCandidates(This)) = 0
    /\ UNCHANGED botThinking
    /\ SetManager(SkipTurnIn(This))
    /\ last' = Call("skipTurn", NoResult, chainPiece)
    /\ chainPiece' = 0
    /\ bot' = [NoBotMove EXCEPT !.outcome = "returned"]
    /\ UNCHANGED << startingPlayer, budget, games >>

\* lines 955-1003 after the first wait, when there is no candidate
BotSkip ==
    /\ last = Idle
    /\ bot.pc = "thinking"
    /\ Len(BotCandidates(This)) = 0
    /\ botThinking' = FALSE
    /\ SetManager(SkipTurnIn(This))
    /\ last' = Call("skipTurn", NoResult, chainPiece)
    /\ chainPiece' = 0
    /\ bot' = [NoBotMove EXCEPT !.outcome = "returned"]
    /\ UNCHANGED << startingPlayer, budget, games >>

\* one iteration of the loop of lines 977-995; best is the candidate that
\* the sort of line 1006 puts first among those scored so far
BotScore(jitter) ==
    /\ bot.pc = "scoring"
    /\ bot.next =< Len(bot.moves)
    /\ LET moveScore == MoveScore(bot.moves[bot.next], jitter)
           better == bot.best = 0 \/ moveScore > bot.bestScore
       IN bot' = [bot EXCEPT !.next = bot.next + 1,
                             !.best = IF better THEN bot.next ELSE bot.best,
                             !.bestScore = IF better THEN moveScore ELSE bot.bestScore]
    /\ UNCHANGED << pieces, selectedPieceIndex, currentPlayer, startingPlayer,
                    mustCaptureFrom, last, chainPiece, budget, games, botThinking >>

\* lines 1006-1013: bestMove is chosen and its piece selected, up to the
\* second wait; of the scores nothing is used after line 1007
BotSelect ==
    /\ bot.pc = "scoring"
    /\ bot.next > Len(bot.moves)
    /\ LET index == bot.moves[bot.best].pieceIndex
       IN selectedPieceIndex' =
              IF index >= 0 /\ index < Len(pieces) THEN index ELSE selectedPieceIndex
    /\ bot' = [bot EXCEPT !.pc = "selected", !.next = 0, !.bestScore = 0,
                          !.chosen = pieces[bot.moves[bot.best].pieceIndex + 1].id]
    /\ last' = Call("selectPieceByIndex", NoResult, 0)
    /\ UNCHANGED << pieces, currentPlayer, startingPlayer, mustCaptureFrom,
                    chainPiece, budget, games, botThinking >>

\* lines 1015-1023: how the invocation ends once movePiece has returned r.
\* Line 1020 calls canCapture(this.pieces[this.selectedPieceIndex]) after a
\* successful capture; with no piece at that index, getMovementDirections
\* reads a property of undefined and throws.
BotOutcome(r) ==
    IF r.result.threw THEN "threw"
    ELSE IF r.result.success /\ Len(r.result.captured) > 0
    THEN IF r.m.selectedPieceIndex < 0 \/ r.m.selectedPieceIndex >= Len(r.m.pieces)
         THEN "threw"
         ELSE IF CanCapture(r.m.pieces, r.m.pieces[r.m.selectedPieceIndex + 1])
         THEN "again" ELSE "returned"
    ELSE "returned"

\* lines 1015-1023 after the second wait: movePiece(bestMove.targetPos);
\* line 1017 is not reached when movePiece throws.  bot keeps the
\* candidates and the choice of the invocation that ended
BotPlay ==
    /\ last = Idle
    /\ bot.pc = "selected"
    /\ \E r \in {IF EarlyReturn(This).rejected
                 THEN [m |-> This, result |-> EarlyReturn(This).result,
                       continues |-> FALSE]
                 ELSE MovePieceCall(This, bot.moves[bot.best].targetPos,
                         HasAvailableJumps(pieces, pieces[selectedPieceIndex + 1].color))} :
          /\ SetManager(r.m)
          /\ last' = Call("movePiece", r.result, SelectedId)
          /\ chainPiece' = IF ~r.result.success THEN chainPiece
                           ELSE IF r.continues THEN SelectedId ELSE 0
          /\ budget' = IF r.result.success /\ budget > 0 THEN budget - 1 ELSE budget
          /\ botThinking' = r.result.threw
          /\ bot' = [bot EXCEPT !.pc = "idle", !.outcome = BotOutcome(r)]
    /\ UNCHANGED << startingPlayer, games >>

\* Positions of a game against the bot, black (the bot) to move
BotPositions ==
    { \* a black man with a double capture, another with a capture that
      \* promotes it
      << Man(1, 3, 2, "black"), Man(2, 2, 7, "black"),
         Man(3, 4, 3, "white"), Man(4, 4, 5, "white"), Man(5, 3, 8, "white") >>,
      \* no capture: a black man one step from promotion and another
      << Man(1, 1, 8, "black"), Man(2, 6, 1, "black"), Man(3, 8, 7, "white") >>,
      \* a black man that cannot move
      << Man(1, 0, 7, "black"), Man(2, 1, 8, "white"), Man(3, 2, 9, "white") >> }

InitBot ==
    \E ps \in BotPositions :
        LET m == CheckForForcedCaptures(
                    [pieces |-> ps, selectedPieceIndex |-> -1,
                     currentPlayer |-> botColor, mustCaptureFrom |-> <<>>])
        IN /\ pieces = ps
           /\ selectedPieceIndex = -1
           /\ currentPlayer = botColor
           /\ startingPlayer = "white"
           /\ mustCaptureFrom = m.mustCaptureFrom
           /\ last = Idle
           /\ chainPiece = 0
           /\ budget = BotPlies
           /\ games = 1
           /\ botThinking = FALSE
           /\ bot = NoBotMove

\* the calls of the other player, which do not run inside the scoring loop,
\* and the pieces of makeBotMove
NextBot ==
    \/ bot.pc # "scoring" /\ NextPlay
    \/ BotStart
    \/ BotCollect
    \/ BotSkip
    \/ \E jitter \in Jitters : BotScore(jitter)
    \/ BotSelect
    \/ BotPlay

\* a game in progress against the bot
SpecBot == InitBot /\ [][NextBot]_vars

\* makeBotMove() called while an invocation is in one of its two waits:
\* lines 944-947 return at once unless isBotTurn() holds; if it held, lines
\* 949-952 would start a second invocation next to the first, which the
\* model shows as the invocation starting over
BotBusy ==
    /\ last = Idle
    /\ bot.pc \in {"thinking", "selected"}
    /\ last' = Call("makeBotMove", NoResult, 0)
    /\ IF IsBotTurn
       THEN /\ botThinking' = TRUE
            /\ bot' = [NoBotMove EXCEPT !.pc = "thinking"]
       ELSE UNCHANGED botVars
    /\ UNCHANGED << pieces, selectedPieceIndex, currentPlayer, startingPlayer,
                    mustCaptureFrom, chainPiece, budget, games >>

NextBotBusy ==
    \/ NextBot
    \/ BotBusy

\* a game in progress against the bot, in which makeBotMove is also called
\* while an invocation is waiting
SpecBotBusy == InitBot /\ [][NextBotBusy]_vars

\* Further positions with black (the bot) to move
BotChainPositions ==
    { \* a black man whose capture promotes it and leaves it a capture as a
      \* king, a second black man with a capture
      << Man(1, 2, 7, "black"), Man(2, 0, 1, "black"),
         Man(3, 3, 8, "white"), Man(4, 6, 7, "white"), Man(5, 1, 2, "white") >>,
      \* a black man with one capture that ends its turn
      << Man(1, 0, 1, "black"), Man(2, 1, 2, "white"), Man(3, 9, 8, "white") >>,
      \* a black king between two white men on one diagonal
      << King(1, 4, 5, "black"), Man(2, 6, 7, "white"), Man(3, 2, 3, "white") >> }

InitBotAlone ==
    \E ps \in BotPositions \cup BotChainPositions :
        LET m == CheckForForcedCaptures(
                    [pieces |-> ps, selectedPieceIndex |-> -1,
                     currentPlayer |-> botColor, mustCaptureFrom |-> <<>>])
        IN /\ pieces = ps
           /\ selectedPieceIndex = -1
           /\ currentPlayer = botColor
           /\ startingPlayer = "white"
           /\ mustCaptureFrom = m.mustCaptureFrom
           /\ last = Idle
           /\ chainPiece = 0
           /\ budget = AlonePlies
           /\ games = 1
           /\ botThinking = FALSE
           /\ bot = NoBotMove

\* makeBotMove, called whenever isBotTurn() holds, with no call of the
\* other player
NextBotAlone ==
    \/ BotStart
    \/ BotCollect
    \/ BotSkip
    \/ \E jitter \in Jitters : BotScore(jitter)
    \/ BotSelect
    \/ BotPlay
    \/ Return

\* the bot playing its turn undisturbed
SpecBotAlone == InitBotAlone /\ [][NextBotAlone]_vars

\* the same, where a timer that is due fires and a call that can be made
\* is made
SpecBotAloneFair == SpecBotAlone /\ WF_vars(NextBotAlone)

\* ------------------------------------------------------------------------
\* Properties
\* ------------------------------------------------------------------------
\* a step in which movePiece is called and returns
MoveStep == last = Idle /\ last'.op = "movePiece"

\* the piece that was selected when the last call was made, in the state
\* after the call
Mover == pieces[IndexOfId(pieces, last.mover)]

MoverExists == last.mover # 0 /\ IndexOfId(pieces, last.mover) # 0

\* the selected piece of a movePiece step, after the step
MovedPiece == pieces'[IndexOfId(pieces', SelectedId)]

\* column or row of the square that contains coordinate c
TileOf(c) == (c - BOARD_MIN + TILE_SIZE \div 2) \div TILE_SIZE

\* the piece stands on the centre of a dark square of the board
OnDarkSquare(piece) ==
    \E col \in 0..(BOARD_SIZE - 1), row \in 0..(BOARD_SIZE - 1) :
        IsDarkSquare(row, col) /\ PosOf(piece) = Square(col, row)

\* C1: forced capture.  When some piece of the side to move has a legal
\* capture, a movePiece call that captures nothing (no piece leaves the
\* board) returns success = false and leaves the board and the turn as they
\* were, whichever piece is selected, man or king, for a one-square and for
\* a long move.  Stated from the outcome: a call that captures nothing and
\* is not such a rejection is made only when the side to move has no capture.
ForcedCaptureRejectsOtherMoves ==
    [][(/\ MoveStep
        /\ Len(pieces') = Len(pieces)
        /\ ~(/\ ~last'.result.success
             /\ pieces' = pieces
             /\ currentPlayer' = currentPlayer))
       => ~HasAvailableJumps(pieces, currentPlayer)]_vars

\* a king of the side to move was refused a non-capturing move because a
\* capture is available
ForcedCaptureRefusedKing ==
    /\ last.op = "movePiece"
    /\ last.result.message = "Must capture when available"
    /\ MoverExists /\ Mover.isKing
    /\ HasAvailableJumps(pieces, currentPlayer)

\* C2: multi-jump.  After a successful capture that leaves the moved piece
\* with a further capture, the side to move is still the mover's side and
\* the forced set is exactly the index of that piece, wherever the captured
\* piece was in the list; while that holds, a movePiece call made with any
\* other piece selected fails.
MultiJumpBindsMover ==
    /\ (/\ last.op = "movePiece" /\ last.result.success
        /\ Len(last.result.captured) > 0
        /\ MoverExists /\ CanCapture(pieces, Mover))
       => /\ chainPiece = last.mover
          /\ currentPlayer = Mover.color
    /\ chainPiece # 0
       => LET pi == IndexOfId(pieces, chainPiece)
          IN /\ pi # 0
             /\ currentPlayer = pieces[pi].color
             /\ mustCaptureFrom = << pi - 1 >>
    /\ (last.op = "movePiece" /\ chainPiece # 0 /\ SelectedId # chainPiece)
       => ~last.result.success

\* a white piece (its captured piece stood before it in the list) is in the
\* middle of a multi-jump and a call with another white piece has failed
MultiJumpOtherPieceRefused ==
    /\ last.op = "movePiece" /\ ~last.result.success
    /\ chainPiece # 0
    /\ SelectedId # 0 /\ SelectedId # chainPiece
    /\ pieces[IndexOfId(pieces, chainPiece)].color = "white"
    /\ pieces[selectedPieceIndex + 1].color = "white"
    /\ IndexOfId(pieces, chainPiece) < chainPiece

\* C3: every piece is inside the board bounds and on the centre of a dark
\* square, in every state reached from initializeBoard by selectPieceByIndex,
\* movePiece (any destination coordinates) and skipTurn.
PiecesOnBoardAndDark ==
    \A i \in 1..Len(pieces) : IsOnBoard(PosOf(pieces[i])) /\ OnDarkSquare(pieces[i])

\* C4: no two pieces stand in the same square.
OnePiecePerSquare ==
    \A i, j \in 1..Len(pieces) :
        i # j => << TileOf(pieces[i].x), TileOf(pieces[i].z) >>
                 # << TileOf(pieces[j].x), TileOf(pieces[j].z) >>

\* C5: a movePiece call that returns success = false leaves the piece list,
\* the side to move, the forced-capture set and the selection as they were.
FailedMoveChangesNothing ==
    [][(MoveStep /\ ~last'.result.success)
       => UNCHANGED << pieces, currentPlayer, mustCaptureFrom,
                       selectedPieceIndex >>]_vars

\* a jump was refused after the piece to jump over had been looked up
FailedJumpOverOwnPiece ==
    /\ last.op = "movePiece" /\ ~last.result.success
    /\ last.result.message = "Cannot jump over own piece"

\* C6: every movePiece call returns (it never throws), and a rejected call
\* returns success = false with a non-empty message.
RejectionHasMessage ==
    last.op = "movePiece"
    => /\ ~last.result.threw
       /\ ~last.result.success => last.result.message # ""

\* movePiece was called with no piece selected and was rejected
RejectedWithNothingSelected ==
    /\ last.op = "movePiece" /\ ~last.result.success
    /\ selectedPieceIndex = -1
    /\ last.result.message = "No piece selected"

\* C7: movePiece succeeds only for a destination that the move generator
\* enumerates for the selected piece: without a capture a simple-move square
\* of getValidMovesForPiece, with a capture the landing square of a capture
\* hop, and then canCapture(piece) was true before the call.
SuccessOnlyForGeneratedMoves ==
    [][(MoveStep /\ last'.result.success)
       => LET piece == pieces[selectedPieceIndex + 1]
              simple == GetValidMovesForPiece(pieces, piece)
          IN IF Len(last'.result.captured) = 0
             THEN \E k \in 1..Len(simple) :
                     /\ simple[k].captured = <<>>
                     /\ simple[k].targetPos = PosOf(MovedPiece)
             ELSE /\ CanCapture(pieces, piece)
                  /\ PosOf(MovedPiece) \in HopLandings(pieces, piece)]_vars

\* C8: promotion is monotonic.  A piece that is a king is still a king after
\* every call made within a game, for as long as it is on the board.
PromotionIsMonotonic ==
    [][last'.op # "initializeBoard"
       => \A i \in 1..Len(pieces), j \in 1..Len(pieces') :
             (pieces[i].id = pieces'[j].id /\ pieces[i].isKing)
             => pieces'[j].isKing]_vars

\* a king has moved to a square off both promotion rows and is still a king
KingMovedAndStayedKing ==
    /\ last.op = "movePiece" /\ last.result.success
    /\ ~last.result.becameKing
    /\ MoverExists /\ Mover.isKing
    /\ Mover.z # BOARD_MIN /\ Mover.z # BOARD_MAX

\* C9: when a man lands on the opponent's back row by a capture, the result
\* has becameKing = true and the piece is a king; the turn continues exactly
\* when a king capture exists from the new square, and then the side to move
\* is the same and the piece is the one that must capture; otherwise the
\* turn passes.
CapturePromotionUsesKingRules ==
    [][(/\ MoveStep /\ last'.result.success
        /\ Len(last'.result.captured) > 0
        /\ ~pieces[selectedPieceIndex + 1].isKing
        /\ MovedPiece.z = IF MovedPiece.color = "black" THEN BOARD_MAX ELSE BOARD_MIN)
       => /\ last'.result.becameKing
          /\ MovedPiece.isKing
          /\ IF CanCapture(pieces', [MovedPiece EXCEPT !.isKing = TRUE])
             THEN /\ currentPlayer' = currentPlayer
                  /\ mustCaptureFrom' = << IndexOfId(pieces', SelectedId) - 1 >>
             ELSE currentPlayer' = Other(currentPlayer)]_vars

\* a man was promoted by a capture and has to go on capturing as a king,
\* where a man on that square would have no capture
PromotedByCaptureContinues ==
    /\ last.op = "movePiece" /\ last.result.success
    /\ last.result.becameKing
    /\ Len(last.result.captured) > 0
    /\ chainPiece = last.mover
    /\ MoverExists /\ Mover.isKing
    /\ ~CanCapture(pieces, [Mover EXCEPT !.isKing = FALSE])

\* C10: checkWinner returns a side exactly when the other side has no piece,
\* and null otherwise, the empty board before the first initializeBoard
\* included; the side it returns has at least one piece.
WinnerIffOtherSideEmpty ==
    LET winner == CheckWinner(pieces)
    IN /\ winner # "none"
          => CountOf(pieces, Other(winner)) = 0 /\ CountOf(pieces, winner) > 0
       /\ winner = "none"
          => CountOf(pieces, "black") > 0 /\ CountOf(pieces, "white") > 0

\* the column and row of a piece that stands on a square centre
ColOf(piece) == (piece.x - BOARD_MIN) \div TILE_SIZE

RowOf(piece) == (piece.z - BOARD_MIN) \div TILE_SIZE

\* C11: after initializeBoard, also when it is called on a game in progress,
\* the board holds exactly 20 black and 20 white men, each on the centre of
\* a square with (row + col) odd, no two on one square, black on rows 0..3,
\* white on rows 6..9, rows 4 and 5 empty, and getPieceCounts returns
\* {black: 20, white: 20}.
InitializeBoardSetsUpTwentyMenPerSide ==
    last.op = "initializeBoard"
    => /\ Len(pieces) = 40
       /\ GetPieceCounts(pieces) = [black |-> 20, white |-> 20]
       /\ \A i \in 1..Len(pieces) :
             /\ ~pieces[i].isKing
             /\ PosOf(pieces[i]) = Square(ColOf(pieces[i]), RowOf(pieces[i]))
             /\ ColOf(pieces[i]) \in 0..9
             /\ (RowOf(pieces[i]) + ColOf(pieces[i])) % 2 = 1
             /\ pieces[i].color = "black" => RowOf(pieces[i]) \in 0..3
             /\ pieces[i].color = "white" => RowOf(pieces[i]) \in 6..9
       /\ \A i, j \in 1..Len(pieces) :
             i # j => PosOf(pieces[i]) # PosOf(pieces[j])

\* initializeBoard has been called on a game in progress, in which a capture
\* was pending
BoardSetUpDuringGame ==
    /\ last.op = "initializeBoard"
    /\ games = 2
    /\ Len(mustCaptureFrom) > 0
    /\ Len(pieces) = 40

\* the squares one step diagonally forward of a man
ForwardSquares(piece) ==
    {Step(PosOf(piece), Pos(sx, IF piece.color = "black" THEN 1 ELSE -1), 1) :
        sx \in {-1, 1}}

\* C12: initializeBoard resets the turn state from any prior state.  Right
\* after it no piece is selected, the forced-capture set is empty, the side to
\* move is the starting side, getStatusMessage carries no forced-capture
\* notice, and every man of the starting side can be moved to each empty
\* on-board square one step forward of it.
InitializeBoardResetsTurnState ==
    last.op = "initializeBoard"
    => /\ selectedPieceIndex = -1
       /\ mustCaptureFrom = <<>>
       /\ currentPlayer = startingPlayer
       /\ GetStatusMessage(This).notice = "none"
       /\ \A i \in 1..Len(pieces) :
             pieces[i].color = currentPlayer
             => \A target \in ForwardSquares(pieces[i]) :
                   (IsOnBoard(target) /\ GetPieceAt(pieces, target) = 0)
                   => MovePieceCall([This EXCEPT !.selectedPieceIndex = i - 1],
                                    target,
                                    HasAvailableJumps(pieces, currentPlayer)
                                   ).result.success

\* C13: the starting side alternates between games.  The side to move right
\* after an initializeBoard call is the opposite of the side that was to move
\* right after the previous initializeBoard call (startingPlayer holds that
\* side from line 70 of the previous call on).
StartingSideAlternates ==
    [][(last = Idle /\ last'.op = "initializeBoard" /\ games >= 1)
       => /\ currentPlayer' = Other(startingPlayer)
          /\ startingPlayer' = currentPlayer']_vars

PointsBetween(fromPos, toPos) ==
    {Pos(fromPos.x + Sign(toPos.x - fromPos.x) * t,
         fromPos.z + Sign(toPos.z - fromPos.z) * t) :
        t \in 1..(Abs(toPos.x - fromPos.x) - 1)}

\* C15: every successful non-capturing move of a king is along a diagonal
\* and no piece stands strictly between its origin and its destination.
KingMovePathIsClear ==
    [][(/\ MoveStep /\ last'.result.success
        /\ Len(last'.result.captured) = 0
        /\ pieces[selectedPieceIndex + 1].isKing)
       => LET before == PosOf(pieces[selectedPieceIndex + 1])
              after == PosOf(MovedPiece)
          IN /\ Abs(after.x - before.x) = Abs(after.z - before.z)
             /\ \A i \in 1..Len(pieces) :
                   PosOf(pieces[i]) \notin PointsBetween(before, after)]_vars

\* ------------------------------------------------------------------------
\* the man pieces[i] stands next to exactly one opposing piece, a man, which
\* is its neighbour in direction jumpDirections[k], and the square behind
\* that man is an empty square of the board
SingleOpposingMan(i, k) ==
    LET piece == pieces[i]
        Neighbour(n) == GetPieceAt(pieces, Step(PosOf(piece), jumpDirections[n], 1))
        Opposing(n) == Neighbour(n) # 0 /\ pieces[Neighbour(n)].color # piece.color
        landingPos == Step(PosOf(piece), jumpDirections[k], 2)
    IN /\ ~piece.isKing
       /\ Opposing(k)
       /\ ~pieces[Neighbour(k)].isKing
       /\ \A n \in 1..4 : Opposing(n) => n = k
       /\ IsOnBoard(landingPos)
       /\ GetPieceAt(pieces, landingPos) = 0

\* the manager with pieces[i] selected
Selecting(i) == [This EXCEPT !.selectedPieceIndex = i - 1]

\* the generator returns, for the man pieces[i], a capture whose captured
\* squares are exactly the square of its neighbour in direction k
OffersSingleCapture(i, k) ==
    LET piece == pieces[i]
        moves == GetJumpMoves(pieces, piece, PosOf(piece), <<>>)
    IN \E n \in 1..Len(moves) :
          moves[n].captured = << Step(PosOf(piece), jumpDirections[k], 1) >>

\* movePiece of the selected man pieces[i] to the square behind its
\* neighbour in direction k succeeds, removes exactly that neighbour, leaves
\* the other pieces in place and puts the man on that square
ExecutesSingleCapture(i, k) ==
    LET piece == pieces[i]
        jumpOverPos == Step(PosOf(piece), jumpDirections[k], 1)
        landingPos == Step(PosOf(piece), jumpDirections[k], 2)
        played == MovePieceCall(Selecting(i), landingPos,
                                HasAvailableJumps(pieces, piece.color))
        rest == SelectSeq(pieces, LAMBDA q : q.id # piece.id
                                            /\ PosOf(q) # jumpOverPos)
        after == played.m.pieces
        moved == after[IndexOfId(after, piece.id)]
    IN /\ played.result.success
       /\ played.result.captured = << jumpOverPos >>
       /\ Len(after) = Len(pieces) - 1
       /\ SelectSeq(after, LAMBDA q : q.id # piece.id) = rest
       /\ IndexOfId(after, piece.id) # 0
       /\ PosOf(moved) = landingPos
       /\ moved.color = piece.color

\* C16 (as stated): for a man diagonally adjacent to a single opposing man
\* with the square two steps away on that diagonal empty and on the board,
\* the generator returns a capture with exactly one captured square, the
\* opposing man's, and movePiece to the landing square removes exactly that
\* piece, leaves the others in place and puts the mover two squares along
\* the diagonal, in each of the four directions.
ManCapturesSingleOpponent ==
    \A i \in 1..Len(pieces) : \A k \in 1..4 :
        SingleOpposingMan(i, k) =>
            /\ OffersSingleCapture(i, k)
            /\ ~EarlyReturn(Selecting(i)).rejected => ExecutesSingleCapture(i, k)

\* C16 (amended): as above, where the generator's capture with exactly one
\* captured square is required only when the man has no further capture
\* from the landing square; movePiece is called with the man selected, on
\* its side's turn, and the man not excluded by the forced-capture set.
ManCapturesSingleOpponentNoChain ==
    \A i \in 1..Len(pieces) : \A k \in 1..4 :
        SingleOpposingMan(i, k) =>
            LET piece == pieces[i]
                jumpOverPos == Step(PosOf(piece), jumpDirections[k], 1)
                landingPos == Step(PosOf(piece), jumpDirections[k], 2)
            IN /\ GetJumpMoves(pieces, piece, landingPos, << jumpOverPos >>) = <<>>
                    => OffersSingleCapture(i, k)
               /\ ~EarlyReturn(Selecting(i)).rejected => ExecutesSingleCapture(i, k)

\* C16 witness: a man has just captured a single piece by a move backward
ManCapturedBackward ==
    /\ last.op = "movePiece"
    /\ last.result.success
    /\ Len(last.result.captured) = 1
    /\ MoverExists
    /\ ~Mover.isKing
    /\ Mover.z - last.result.captured[1].z =
           (IF Mover.color = "white" THEN TILE_SIZE ELSE -TILE_SIZE)
    /\ Len(pieces) = 1

\* ------------------------------------------------------------------------
\* the destinations getJumpMovesWithPositions returns for pieces[i]
OfferedLandings(i) ==
    LET moves == GetJumpMovesWithPositions(pieces, pieces[i], PosOf(pieces[i]), <<>>)
    IN {moves[n].targetPos : n \in 1..Len(moves)}

\* C17: for a king whose first piece along a diagonal ray is an opposing
\* piece with empty squares beyond it, getJumpMovesWithPositions offers a
\* landing on every empty square between that piece and the next piece or
\* the board edge on the ray, and no landing beyond a second piece on the
\* ray, whatever other pieces are on the board.
KingOfferedEveryLandingOnRay ==
    \A i \in 1..Len(pieces) : \A k \in 1..4 :
        LET piece == pieces[i]
            dir == jumpDirections[k]
            distance == ScanStop(pieces, PosOf(piece), dir, 1)
            jumpOverPos == Step(PosOf(piece), dir, distance)
            stop == ScanStop(pieces, PosOf(piece), dir, distance + 1)
        IN (/\ piece.isKing
            /\ distance =< 9
            /\ IsOnBoard(jumpOverPos)
            /\ pieces[GetPieceAt(pieces, jumpOverPos)].color # piece.color
            /\ stop > distance + 1)
           => /\ \A d \in (distance + 1)..(stop - 1) :
                    Step(PosOf(piece), dir, d) \in OfferedLandings(i)
              /\ \A d \in (stop + 1)..9 :
                    (stop =< 9 /\ IsOnBoard(Step(PosOf(piece), dir, stop)))
                        => Step(PosOf(piece), dir, d) \notin OfferedLandings(i)

\* ------------------------------------------------------------------------
\* the 0-based list indices of the pieces of a side that can capture
CapturingIndices(ps, color) ==
    {i - 1 : i \in {j \in 1..Len(ps) : ps[j].color = color /\ CanCapture(ps, ps[j])}}

\* the values of a sequence
Range(seq) == {seq[k] : k \in 1..Len(seq)}

\* C18: every successful movePiece that does not leave the moved piece with
\* a further capture switches the side to move, clears the selection and
\* replaces the forced-capture set by the new side's capturing pieces; a
\* successful non-capturing move always passes the turn, even when the
\* moved piece could capture from its new square.
MoveWithoutContinuationPassesTurn ==
    [][(MoveStep /\ last'.result.success)
       => /\ \/ /\ currentPlayer' = Other(currentPlayer)
                /\ selectedPieceIndex' = -1
                /\ Range(mustCaptureFrom') = CapturingIndices(pieces', currentPlayer')
                /\ Cardinality(Range(mustCaptureFrom')) = Len(mustCaptureFrom')
             \/ /\ Len(last'.result.captured) > 0
                /\ CanCapture(pieces', MovedPiece)
          /\ Len(last'.result.captured) = 0
                => currentPlayer' = Other(currentPlayer)]_vars

\* C18 witness: a move without capture has passed the turn although the
\* moved piece can capture from its new square
TurnPassedBeforeCapture ==
    /\ last.op = "movePiece"
    /\ last.result.success
    /\ Len(last.result.captured) = 0
    /\ MoverExists
    /\ CanCapture(pieces, Mover)
    /\ currentPlayer = Other(Mover.color)
    /\ selectedPieceIndex = -1

\* ------------------------------------------------------------------------
\* a step in which skipTurn is called and returns
SkipStep == last = Idle /\ last'.op = "skipTurn"

\* C19: skipTurn switches the side to move in every state, also in the
\* middle of a multi-jump; it replaces the obligation to continue with a
\* particular piece by the new side's capturing pieces, clears the
\* selection and leaves every piece as it was; a second skipTurn right
\* after it restores the side to move.
SkipTurnSwitchesSide ==
    [][SkipStep
       => /\ currentPlayer' = Other(currentPlayer)
          /\ currentPlayer' # currentPlayer
          /\ selectedPieceIndex' = -1
          /\ pieces' = pieces
          /\ Range(mustCaptureFrom') = CapturingIndices(pieces', currentPlayer')
          /\ \A k \in 1..Len(mustCaptureFrom') :
                pieces'[mustCaptureFrom'[k] + 1].color = currentPlayer'
          /\ SkipTurnIn(This').currentPlayer = currentPlayer
          /\ SkipTurnIn(This').pieces = pieces]_vars

\* C19 witness: skipTurn was called in the middle of a multi-jump, the
\* bound piece still has its capture, and the other side is to move with
\* nothing selected
SkippedDuringMultiJump ==
    /\ last.op = "skipTurn"
    /\ MoverExists
    /\ CanCapture(pieces, Mover)
    /\ currentPlayer = Other(Mover.color)
    /\ selectedPieceIndex = -1
    /\ ~Includes(mustCaptureFrom, IndexOfId(pieces, last.mover) - 1)

\* ------------------------------------------------------------------------
\* the points of a candidate without the jitter
BaseScore(move) ==
    move.captureCount * 10 + (IF move.becomesKing THEN 5 ELSE 0)
                           + (IF move.isKing THEN 1 ELSE 0)

\* the candidate that invocation b holds as its best has, while the scores
\* are compared, a score of its base points plus a jitter in [0, 2), and no
\* candidate scored so far (once chosen: no candidate) captures more than it
ChosenHasMostCaptures(b) ==
    b.best # 0 =>
        LET chosen == b.moves[b.best]
            scored == IF b.pc = "scoring" THEN b.next - 1 ELSE Len(b.moves)
        IN /\ b.pc = "scoring" =>
                 b.bestScore - BaseScore(chosen) * ScoreScale \in 0..(2 * ScoreScale - 1)
           /\ \A k \in 1..scored :
                 b.moves[k].captureCount =< chosen.captureCount

\* a step in which the bot plays its move
BotPlayStep == bot.pc = "selected" /\ bot'.pc = "idle"

\* C20: the bot's score is 10 per captured piece plus 5 if the move promotes
\* plus 1 if the piece is a king plus a jitter in [0, 2); the bot plays the
\* highest-scoring candidate; whatever the jitters, the candidate it chooses
\* has the greatest capture count of all candidates.
BotPrefersMostCaptures ==
    [][/\ ChosenHasMostCaptures(bot')
       /\ (bot.pc = "scoring" /\ bot'.pc = "scoring" /\ bot.best # 0)
            => /\ bot'.bestScore >= bot.bestScore
               /\ bot'.bestScore >= MoveScore(bot.moves[bot.next], 0)
       /\ (bot.pc = "scoring" /\ bot'.pc = "selected")
            => /\ bot.next = Len(bot.moves) + 1
               /\ bot'.best = bot.best
               /\ bot'.best \in 1..Len(bot.moves)
               /\ bot'.moves = bot.moves
               /\ selectedPieceIndex' = bot.moves[bot.best].pieceIndex
       /\ (BotPlayStep /\ last'.result.success)
            => PosOf(MovedPiece) = bot.moves[bot.best].targetPos]_vars

\* C20 witness: the bot has played the candidate with two captures although
\* a candidate with one capture promotes; the greatest score of the second
\* is below the least score of the first
BotChoseDoubleCapture ==
    /\ bot.pc = "idle"
    /\ bot.best # 0
    /\ last.op = "movePiece"
    /\ bot.moves[bot.best].captureCount = 2
    /\ \E k \in 1..Len(bot.moves) :
          /\ bot.moves[k].captureCount = 1
          /\ bot.moves[k].becomesKing
          /\ MoveScore(bot.moves[k], 2 * ScoreScale - 1)
                < MoveScore(bot.moves[bot.best], 0)

\* ------------------------------------------------------------------------
\* C21: after a bot capture that leaves the moved piece with a further
\* capture, the bot's follow-up selection considers only that piece: while
\* a piece is bound to continue (chainPiece), every candidate the bot
\* collects belongs to that piece and every move it attempts is made with
\* that piece.
BotContinuesWithSamePiece ==
    [][/\ (bot.pc = "thinking" /\ bot'.pc = "scoring" /\ chainPiece # 0)
            => \A k \in 1..Len(bot'.moves) :
                   pieces[bot'.moves[k].pieceIndex + 1].id = chainPiece
       /\ (BotPlayStep /\ chainPiece # 0) => SelectedId = chainPiece]_vars

\* ------------------------------------------------------------------------
\* C22: makeBotMove completes without raising an error in every state; in
\* particular after a bot capture that ends its turn it returns normally
\* and control has passed to the opponent.
MakeBotMoveNeverThrows ==
    /\ bot.outcome # "threw"
    /\ (/\ bot.pc = "idle" /\ bot.outcome # "none"
        /\ last.op = "movePiece" /\ last.result.success
        /\ Len(last.result.captured) > 0
        /\ chainPiece = 0)
       => /\ bot.outcome = "returned"
          /\ currentPlayer = Other(botColor)

\* ------------------------------------------------------------------------
\* no piece of a side has a move that getValidMoves lists
NoLegalMove(ps, color) ==
    \A i \in 1..Len(ps) : ps[i].color = color => Len(GetValidMoves(ps, ps[i])) = 0

\* C23: when makeBotMove runs on the bot's turn and no piece of the bot's
\* side has a legal move, it calls skipTurn exactly once: the side to move
\* becomes the opponent, the board is unchanged, the thinking flag is
\* cleared and the invocation has ended.
BotSkipsWhenNoMove ==
    [][(/\ bot.pc = "thinking" /\ bot'.pc # "thinking"
        /\ currentPlayer = botColor
        /\ NoLegalMove(pieces, botColor))
       => /\ last'.op = "skipTurn"
          /\ currentPlayer' = Other(botColor)
          /\ pieces' = pieces
          /\ selectedPieceIndex' = -1
          /\ ~botThinking'
          /\ bot'.pc = "idle"
          /\ bot'.outcome = "returned"]_vars

\* C23 witness: the bot has skipped its turn with a piece that cannot move
BotSkippedTurn ==
    /\ last.op = "skipTurn"
    /\ bot.pc = "idle"
    /\ bot.outcome = "returned"
    /\ ~botThinking
    /\ currentPlayer = Other(botColor)
    /\ NoLegalMove(pieces, botColor)
    /\ \E i \in 1..Len(pieces) : pieces[i].color = botColor

\* ------------------------------------------------------------------------
\* C24: the bot's waits do not affect the result: whatever calls of the
\* other player run during the two waits, whenever the bot's movePiece call
\* succeeds, the piece it moves is the piece the bot chose and the
\* destination is the one it chose for that piece.
BotMovesThePieceItChose ==
    [][(BotPlayStep /\ last'.result.success)
       => /\ SelectedId = bot.chosen
          /\ PosOf(MovedPiece) = bot.moves[bot.best].targetPos]_vars

\* ------------------------------------------------------------------------
\* C25: in every state reached after one initializeBoard through movePiece,
\* skipTurn and selection calls, getStatusMessage names the side to move
\* and has the forced-capture notice exactly when at least one piece of the
\* side to move has a legal capture.
StatusMessageTellsForcedCapture ==
    games = 1 =>
        /\ GetStatusMessage(This).player = currentPlayer
        /\ GetStatusMessage(This).notice = "Must capture!"
              <=> HasAvailableJumps(pieces, currentPlayer)

\* C25 witness: a move has passed the turn to a side that has a capture,
\* and the message has the notice
StatusShowsNoticeAfterMove ==
    /\ games = 1
    /\ last.op = "movePiece"
    /\ last.result.success
    /\ MoverExists
    /\ currentPlayer = Other(Mover.color)
    /\ HasAvailableJumps(pieces, currentPlayer)
    /\ GetStatusMessage(This).notice = "Must capture!"

\* ------------------------------------------------------------------------
\* the square `distance' steps diagonally forward of a man, to the side sx
ForwardSquare(piece, sx, distance) ==
    Step(PosOf(piece), Pos(sx, IF piece.color = "black" THEN 1 ELSE -1), distance)

\* movePiece(target) with piece i selected is accepted
MoveAccepted(i, target) ==
    /\ ~EarlyReturn(Selecting(i)).rejected
    /\ MovePieceCall(Selecting(i), target, FALSE).result.success

\* C26: a man that has never moved may make a non-capturing move of one or
\* two squares diagonally forward, two squares only when the intermediate
\* square is empty: when it is the man's turn and no capture is forced, the
\* move to an empty on-board square one step forward is accepted, and so is
\* the move to an empty on-board square two steps forward over an empty
\* square.  The hasMoved flag of a piece is false until its first successful
\* move and true afterwards.
NeverMovedManMovesOneOrTwoSquares ==
    /\ [](\A i \in 1..Len(pieces) :
            (/\ ~pieces[i].isKing /\ ~pieces[i].hasMoved
             /\ pieces[i].color = currentPlayer
             /\ mustCaptureFrom = <<>>
             /\ ~HasAvailableJumps(pieces, currentPlayer))
            => \A sx \in {-1, 1} :
                  /\ (/\ IsOnBoard(ForwardSquare(pieces[i], sx, 1))
                      /\ GetPieceAt(pieces, ForwardSquare(pieces[i], sx, 1)) = 0)
                     => MoveAccepted(i, ForwardSquare(pieces[i], sx, 1))
                  /\ (/\ IsOnBoard(ForwardSquare(pieces[i], sx, 2))
                      /\ GetPieceAt(pieces, ForwardSquare(pieces[i], sx, 1)) = 0
                      /\ GetPieceAt(pieces, ForwardSquare(pieces[i], sx, 2)) = 0)
                     => MoveAccepted(i, ForwardSquare(pieces[i], sx, 2)))
    /\ [][last'.op # "initializeBoard"
          => \A i \in 1..Len(pieces) :
                IndexOfId(pieces', pieces[i].id) # 0
                => pieces'[IndexOfId(pieces', pieces[i].id)].hasMoved
                      = (\/ pieces[i].hasMoved
                         \/ /\ last'.op = "movePiece" /\ last'.result.success
                            /\ selectedPieceIndex = i - 1)]_vars

\* ------------------------------------------------------------------------
\* C27: the destination the bot passes to movePiece is always accepted: with
\* no other call between the bot's steps, the movePiece call of makeBotMove
\* returns success.
BotMoveIsAccepted ==
    [][BotPlayStep => last'.result.success]_vars

\* ------------------------------------------------------------------------
\* C28: bot turn liveness.  When it is the bot's turn, makeBotMove is
\* invoked again each time isBotTurn() holds and no other call is made,
\* eventually the side to move is the opponent of the bot (or the plies
\* explored are used up).
BotTurnEventuallyPasses ==
    (currentPlayer = botColor /\ budget > 0)
        ~> (currentPlayer = Other(botColor) \/ budget = 0)

\* ------------------------------------------------------------------------
\* the (list index, destination) pairs of the simple moves of all pieces of
\* a side
SimpleMovesOf(ps, color) ==
    UNION {{<< i - 1, target >> : target \in Range(SimpleTargets(ps, ps[i]))} :
              i \in {j \in 1..Len(ps) : ps[j].color = color}}

\* C29: the bot observes the forced capture.  When at least one piece of
\* the bot's side can capture, every candidate the bot has collected is a
\* capture by a piece of its side that can capture; when none can, the
\* candidates are exactly the simple moves of all its pieces.
BotCandidatesObserveForcedCapture ==
    bot.pc = "scoring"
    => IF HasAvailableJumps(pieces, botColor)
       THEN \A k \in 1..Len(bot.moves) :
               /\ bot.moves[k].captureCount > 0
               /\ pieces[bot.moves[k].pieceIndex + 1].color = botColor
               /\ CanCapture(pieces, pieces[bot.moves[k].pieceIndex + 1])
       ELSE /\ \A k \in 1..Len(bot.moves) : bot.moves[k].captureCount = 0
            /\ {<< bot.moves[k].pieceIndex, bot.moves[k].targetPos >> :
                   k \in 1..Len(bot.moves)} = SimpleMovesOf(pieces, botColor)

\* C29 witness: the bot has collected its candidates while one of its
\* pieces can capture and simple moves of its side exist
BotCollectedOnlyCaptures ==
    /\ bot.pc = "scoring"
    /\ HasAvailableJumps(pieces, botColor)
    /\ SimpleMovesOf(pieces, botColor) # {}
    /\ Len(bot.moves) > 0

\* ------------------------------------------------------------------------
\* the on-board squares on the four diagonals of a position, two to nine
\* steps away
DiagonalTargets(fromPos) ==
    {t \in {Step(fromPos, jumpDirections[k], d) : k \in 1..4, d \in 2..9} :
        IsOnBoard(t)}

\* The maximal chains of successive capturing movePiece calls by the
\* selected piece of m: each chain as the generator reports a sequence, its
\* final landing square and the squares captured in order.  A chain ends
\* with the capture after which movePiece passes the turn.
RECURSIVE CaptureChains(_, _)
CaptureChains(m, capturedSoFar) ==
    LET piece == m.pieces[m.selectedPieceIndex + 1]
        Hop(targetPos) ==
            CHOOSE chains \in
                {(IF ~(r.result.success /\ Len(r.result.captured) > 0) THEN {}
                 ELSE IF r.continues
                 THEN CaptureChains(r.m, capturedSoFar \o r.result.captured)
                 ELSE {[targetPos |-> targetPos,
                        captured |-> capturedSoFar \o r.result.captured]}) :
                    r \in {MovePieceCall(m, targetPos, HasAvailableJumps(m.pieces, piece.color))}} : TRUE
    IN UNION {Hop(targetPos) : targetPos \in DiagonalTargets(PosOf(piece))}

\* C30: the capture sequences returned by the jump search coincide with
\* what movePiece lets the piece do in one turn.  For every piece of the
\* side to move that movePiece accepts as the mover, a sequence (final
\* landing square, captured squares in order) is returned by
\* getJumpMovesWithPositions if and only if it is a maximal chain of
\* successive capturing movePiece calls by that piece.
JumpSearchMatchesMovePiece ==
    \A i \in 1..Len(pieces) :
        (last = Idle /\ ~EarlyReturn(Selecting(i)).rejected)
        => Range(GetJumpMovesWithPositions(pieces, pieces[i], PosOf(pieces[i]), <<>>))
              = CaptureChains(Selecting(i), <<>>)

\* ------------------------------------------------------------------------
\* C31: every capture sequence returned by getJumpMoves is non-empty, lists
\* pairwise distinct squares, and each listed square holds a piece of the
\* opposing colour; the recursion ends, a sequence being at most as long as
\* the number of opposing pieces (one level of the recursion per square).
\* The search is made for every piece in every state between calls.
JumpSequencesAreSound ==
    [](last = Idle => \A i \in 1..Len(pieces) :
              \A seq \in {GetJumpMoves(pieces, pieces[i], PosOf(pieces[i]), <<>>)} :
                  \A k \in 1..Len(seq) :
                      /\ Len(seq[k].captured) > 0
                      /\ Len(seq[k].captured) =< CountOf(pieces, Other(pieces[i].color))
                      /\ \A a, b \in 1..Len(seq[k].captured) :
                            a # b => ~Near(seq[k].captured[a], seq[k].captured[b])
                      /\ \A a \in 1..Len(seq[k].captured) :
                            /\ GetPieceAt(pieces, seq[k].captured[a]) # 0
                            /\ pieces[GetPieceAt(pieces, seq[k].captured[a])].color
                                  = Other(pieces[i].color))

\* C31 witness: the jump search returns, for a piece of the side to move, a
\* sequence of two captures
JumpSearchFoundDoubleCapture ==
    \E i \in 1..Len(pieces) :
        /\ pieces[i].color = currentPlayer
        /\ \E seq \in {GetJumpMoves(pieces, pieces[i], PosOf(pieces[i]), <<>>)} :
              \E k \in 1..Len(seq) : Len(seq[k].captured) = 2

\* ------------------------------------------------------------------------
\* the pieces of ps that stand strictly between fromPos and toPos
PiecesBetween(ps, fromPos, toPos) ==
    {i \in 1..Len(ps) : PosOf(ps[i]) \in PointsBetween(fromPos, toPos)}

\* the ids of the pieces of ps
IdsOf(ps) == {ps[i].id : i \in 1..Len(ps)}

\* C32: every successful capturing movePiece removes exactly one piece, an
\* opposing piece that was the only piece strictly between the origin and
\* the destination on the diagonal; the mover's side keeps its count and the
\* opponent's drops by one; no move succeeds whose path holds two or more
\* pieces or a piece of the mover's colour.
CaptureRemovesTheOnePieceJumped ==
    [][(MoveStep /\ last'.result.success)
       => LET piece == pieces[selectedPieceIndex + 1]
              before == PosOf(piece)
              after == PosOf(MovedPiece)
              between == PiecesBetween(pieces, before, after)
              removed == IdsOf(pieces) \ IdsOf(pieces')
          IN /\ Len(last'.result.captured) > 0 =>
                   /\ Len(pieces') = Len(pieces) - 1
                   /\ Cardinality(removed) = 1
                   /\ Abs(after.x - before.x) = Abs(after.z - before.z)
                   /\ {pieces[i].id : i \in between} = removed
                   /\ \A i \in between : pieces[i].color = Other(piece.color)
                   /\ CountOf(pieces', piece.color) = CountOf(pieces, piece.color)
                   /\ CountOf(pieces', Other(piece.color))
                         = CountOf(pieces, Other(piece.color)) - 1
             /\ Abs(after.x - before.x) = Abs(after.z - before.z) =>
                   /\ Cardinality(between) < 2
                   /\ \A i \in between : pieces[i].color # piece.color]_vars

\* ------------------------------------------------------------------------
\* C33: in every reachable state selectedPieceIndex is -1 or a valid index
\* into the piece list, and after a successful capture that continues the
\* turn it denotes the piece that just moved, whether the captured piece was
\* stored before or after it in the list.
SelectionFollowsThePiece ==
    /\ [](selectedPieceIndex = -1
            \/ (selectedPieceIndex >= 0 /\ selectedPieceIndex < Len(pieces)))
    /\ [][(/\ MoveStep /\ last'.result.success
           /\ Len(last'.result.captured) > 0
           /\ currentPlayer' = currentPlayer)
          => /\ selectedPieceIndex' >= 0 /\ selectedPieceIndex' < Len(pieces')
             /\ pieces'[selectedPieceIndex' + 1].id = SelectedId
             /\ PosOf(pieces'[selectedPieceIndex' + 1]) # PosOf(pieces[selectedPieceIndex + 1])
             /\ mustCaptureFrom' = << selectedPieceIndex' >>]_vars

\* C33 witness: a capture has just continued the turn and the captured piece
\* was stored before the moving piece, whose index has therefore changed (the
\* pieces are numbered from 1 in the order of the list at the start)
SelectionShiftedWithThePiece ==
    /\ last.op = "movePiece" /\ last.result.success
    /\ Len(last.result.captured) > 0
    /\ MoverExists /\ Mover.color = currentPlayer
    /\ SelectedId = last.mover
    /\ selectedPieceIndex + 1 < last.mover

\* ------------------------------------------------------------------------
\* movePiece captures, for the selected piece pieces[i], at some destination
CapturesByMovePiece(i) ==
    \E jumpsAvailable \in {HasAvailableJumps(pieces, pieces[i].color)} :
        \E targetPos \in Targets :
            \E r \in {MovePieceCall(Selecting(i), targetPos, jumpsAvailable)} :
                r.result.success /\ Len(r.result.captured) > 0

\* C34: in every state reached after one initializeBoard, every index stored
\* in mustCaptureFrom is a valid index into the piece list and denotes a
\* piece of the side to move that has a legal capture: canCapture holds for
\* it and movePiece accepts a capture by it.  The states between calls are
\* looked at: a call that has returned leaves the manager as the next call
\* finds it.
ForcedCaptureSetIsSound ==
    []((games = 1 /\ last = Idle) =>
              \A k \in 1..Len(mustCaptureFrom) :
                  /\ mustCaptureFrom[k] >= 0 /\ mustCaptureFrom[k] < Len(pieces)
                  /\ pieces[mustCaptureFrom[k] + 1].color = currentPlayer
                  /\ CanCapture(pieces, pieces[mustCaptureFrom[k] + 1])
                  /\ CapturesByMovePiece(mustCaptureFrom[k] + 1))

\* C34 witness: after a capture, mustCaptureFrom holds the index of a piece
\* that was stored behind the captured piece and has moved up in the list
\* (the pieces are numbered from 1 in the order of the list at the start)
ForcedCaptureSetAfterRemoval ==
    /\ games = 1
    /\ last.op = "movePiece" /\ last.result.success
    /\ Len(last.result.captured) > 0
    /\ \E k \in 1..Len(mustCaptureFrom) :
          /\ mustCaptureFrom[k] >= 0 /\ mustCaptureFrom[k] < Len(pieces)
          /\ pieces[mustCaptureFrom[k] + 1].id > mustCaptureFrom[k] + 1

\* ------------------------------------------------------------------------
\* the destinations a caller may pass that lie on the board
OnBoardTargets == {targetPos \in Targets : IsOnBoard(targetPos)}

\* selectPieceByIndex(i - 1) followed by movePiece succeeds at some
\* destination on the board
MovesByMovePiece(i) ==
    /\ ~EarlyReturn(Selecting(i)).rejected
    /\ \E jumpsAvailable \in {HasAvailableJumps(pieces, pieces[i].color)} :
          \E targetPos \in OnBoardTargets :
              \E r \in {MovePieceCall(Selecting(i), targetPos, jumpsAvailable)} :
                  r.result.success

OneBotMoveAtATime ==
    /\ [](bot.pc # "idle" <=> botThinking)
    /\ [][(bot.pc # "idle" /\ last'.op = "makeBotMove")
          => UNCHANGED << pieces, selectedPieceIndex, currentPlayer,
                          mustCaptureFrom, botThinking, bot >>]_vars

\* C36 witness: makeBotMove has been called during the second wait of an
\* invocation, which has selected its piece and not yet moved it
BotCalledWhileWaiting ==
    /\ last.op = "makeBotMove"
    /\ bot.pc = "selected"
    /\ botThinking

\* ------------------------------------------------------------------------
\* C37: the failure movePiece reports follows a fixed order: no piece
\* selected, then wrong side to move, then not a piece bound to capture,
\* then occupied destination, and only then the geometry of the move or the
\* forced capture; a call that breaks several rules reports the first.  The
\* call is movePiece(targetPos) after selectPieceByIndex(i - 1), or with no
\* piece selected when i = 0, made when no other call is running.
FailuresAreReportedInOrder ==
    [](last = Idle =>
          \A i \in 0..Len(pieces) :
              \E jumpsAvailable \in {IF i = 0 THEN FALSE
                                     ELSE HasAvailableJumps(pieces, pieces[i].color)} :
              \A targetPos \in Targets :
              \E result \in {MovePieceCall(Selecting(i), targetPos, jumpsAvailable).result} :
                  IF i = 0
                  THEN ~result.success /\ result.message = "No piece selected"
                  ELSE IF pieces[i].color # currentPlayer
                  THEN /\ ~result.success
                       /\ result.message = (IF currentPlayer = "black" THEN "It's black's turn"
                                            ELSE "It's white's turn")
                  ELSE IF Len(mustCaptureFrom) > 0 /\ ~Includes(mustCaptureFrom, i - 1)
                  THEN /\ ~result.success
                       /\ result.message = "You must continue capturing with the same piece."
                  ELSE IF GetPieceAt(pieces, targetPos) # 0
                  THEN ~result.success /\ result.message = "Target position is occupied"
                  ELSE \/ result.success
                       \/ result.message \notin
                              {"No piece selected", "It's black's turn", "It's white's turn",
                               "You must continue capturing with the same piece.",
                               "Target position is occupied"})

\* C37 witness: movePiece has reported the wrong side for a selected piece
\* that is of the side not to move and is not among the pieces bound to
\* capture either
WrongSideReportedFirst ==
    /\ last.op = "movePiece"
    /\ selectedPieceIndex >= 0 /\ selectedPieceIndex < Len(pieces)
    /\ pieces[selectedPieceIndex + 1].color # currentPlayer
    /\ Len(mustCaptureFrom) > 0
    /\ ~Includes(mustCaptureFrom, selectedPieceIndex)
    /\ last.result = WrongTurn(This)

\* ------------------------------------------------------------------------
\* C38: in every state of a game, after initializeBoard, at least one side
\* has a piece, so that the side checkWinner() names is a side with pieces;
\* within a game the number of pieces of a side never increases; and the
\* side that has just captured is never a side without pieces, nor the side
\* checkWinner() names as the loser.
PieceCountsOnlyFall ==
    /\ [](games >= 1 =>
            /\ CountOf(pieces, "black") + CountOf(pieces, "white") > 0
            /\ CheckWinner(pieces) # "none"
                  => CountOf(pieces, CheckWinner(pieces)) > 0)
    /\ [][games' = games =>
            /\ CountOf(pieces', "black") =< CountOf(pieces, "black")
            /\ CountOf(pieces', "white") =< CountOf(pieces, "white")]_vars
    /\ [][(/\ last'.op = "movePiece" /\ last # last'
           /\ last'.result.success /\ Len(last'.result.captured) > 0)
          => /\ CountOf(pieces', currentPlayer) > 0
             /\ CheckWinner(pieces') \in {"none", currentPlayer}]_vars

\* C38 witness: a capture has just removed the last piece of a side, and
\* checkWinner() names the side that captured
LastPieceCaptured ==
    /\ games >= 1
    /\ last.op = "movePiece" /\ last.result.success
    /\ Len(last.result.captured) > 0
    /\ MoverExists
    /\ CountOf(pieces, Other(Mover.color)) = 0
    /\ CheckWinner(pieces) = Mover.color

\* ------------------------------------------------------------------------
\* C39: promotion is applied at the end of the move that reaches the far
\* row.  In every state between calls no black man stands on the row
\* z = BOARD_MAX (or beyond it) and no white man on the row z = BOARD_MIN (or
\* beyond it); and the result of movePiece has becameKing true exactly when
\* the moved piece was a man before the call and is a king after it.
PromotionOnArrival ==
    /\ [](last = Idle =>
            \A i \in 1..Len(pieces) :
                ~pieces[i].isKing =>
                    /\ pieces[i].color = "black" => pieces[i].z < BOARD_MAX
                    /\ pieces[i].color = "white" => pieces[i].z > BOARD_MIN)
    /\ [][MoveStep =>
            (last'.result.becameKing <=>
                /\ SelectedId # 0
                /\ ~pieces[selectedPieceIndex + 1].isKing
                /\ IndexOfId(pieces', SelectedId) # 0
                /\ MovedPiece.isKing)]_vars

\* C39 witness: a man has just reached its far row and the call has returned
\* with becameKing true and the piece a king
ManPromotedOnArrival ==
    /\ last.op = "movePiece" /\ last.result.success
    /\ last.result.becameKing
    /\ MoverExists /\ Mover.isKing
    /\ Mover.z = (IF Mover.color = "black" THEN BOARD_MAX ELSE BOARD_MIN)

====
